---- MODULE Spec2Model ----
(***************************************************************************)
(* chinfo.py: the cross-platform host information collector.               *)
(*                                                                         *)
(* Text is modelled by TLA+ strings, read character by character with      *)
(* SubSeq, so every parser works on the same text the Python code reads.   *)
(* A Python dict is a function whose domain is the set of keys present;    *)
(* an Optional value is None (the empty tuple) or Some(v) (a 1-tuple).     *)
(*                                                                         *)
(* The state is one call of one collector: the platform, the raw standard  *)
(* output each external command would print and the text of each file that *)
(* exists, the commands the call ran and the files it opened, and the      *)
(* value it returned. For the report assembler the state also holds the    *)
(* wall clock, the hash seed of the interpreter (which orders the          *)
(* iteration of a set of str) and the report of an earlier run against the *)
(* same sources.                                                           *)
(***************************************************************************)
EXTENDS Integers, Sequences, FiniteSets, TLC

VARIABLES system, fn, env, ran, ret, clock, seed, prev

vars == <<system, fn, env, ran, ret, clock, seed, prev>>

(***************************************************************************)
(* Python values                                                           *)
(***************************************************************************)
None == <<>>

Some(v) == <<v>>

EmptyDict == [k \in {} |-> ""]

\* d[k] = v
DictSet(d, k, v) == [x \in DOMAIN d \cup {k} |-> IF x = k THEN v ELSE d[x]]

\* d.setdefault(k, v), as the dict it leaves
DictSetDefault(d, k, v) == IF k \in DOMAIN d THEN d ELSE DictSet(d, k, v)

\* d.setdefault(k, []).append(v), as the dict it leaves
DictAppend(d, k, v) == DictSet(d, k, Append(IF k \in DOMAIN d THEN d[k] ELSE <<>>, v))

MinOf(S) == CHOOSE m \in S : \A n \in S : m <= n

MaxOf(S) == 0 - MinOf({0 - n : n \in S})

(***************************************************************************)
(* Python str operations                                                   *)
(***************************************************************************)
\* s[a-1:b]: the characters a..b that s has
Slice(s, a, b) ==
  LET lo == IF a < 1 THEN 1 ELSE a
      hi == IF b > Len(s) THEN Len(s) ELSE b
  IN IF lo > hi THEN "" ELSE SubSeq(s, lo, hi)

\* the character at index i, "" outside s
Char(s, i) == Slice(s, i, i)

(***************************************************************************)
(* Characters. A TLA+ string holds the characters U+0001 to U+00FF other    *)
(* than the grave accent, and the characters of U+0100 to U+FFFF whose code *)
(* point has a low byte of 0x80 or more. The classes below are those of    *)
(* CPython 3.11 (Unicode 14.0.0), cut to the characters a string can hold. *)
(***************************************************************************)
\* the characters of str.isspace(): what strip() and split() take and the
\* regex class \s matches
Whitespace ==
  {"\t", "\n", "", "\f", "\r", "", "", "", "", " ", "", " ", " "}

\* the characters int() skips around a number: U+001C to U+001F are not among
\* them
IntWhitespace ==
  {"\t", "\n", "", "\f", "\r", " ", "", " ", " "}

\* the characters at which str.splitlines() ends a line
LineBoundaries ==
  {"\n", "", "\f", "\r", "", "", "", ""}

\* the characters of the string s
CharsOf(s) == {Char(s, i) : i \in 1..Len(s)}

\* the characters of the strings of the list ss
CharsIn(ss) == UNION {CharsOf(ss[i]) : i \in 1..Len(ss)}

\* the regex class [0-9]
AsciiDigits == {"0", "1", "2", "3", "4", "5", "6", "7", "8", "9"}

\* the decimal digits, each script from its zero to its nine
DecimalDigits ==
  "0123456789۰۱۲۳۴۵۶۷۸۹߀߁߂߃߄߅߆߇߈߉০১২৩৪৫৬৭৮৯૦૧૨૩૪૫૬૭૮૯"
  \o "௦௧௨௩௪௫௬௭௮௯೦೧೨೩೪೫೬೭೮೯෦෧෨෩෪෫෬෭෮෯໐໑໒໓໔໕໖໗໘໙႐႑႒႓႔႕႖႗႘႙"
  \o "០១២៣៤៥៦៧៨៩᧐᧑᧒᧓᧔᧕᧖᧗᧘᧙᪀᪁᪂᪃᪄᪅᪆᪇᪈᪉᪐᪑᪒᪓᪔᪕᪖᪗᪘᪙᮰᮱᮲᮳᮴᮵᮶᮷᮸᮹"
  \o "꣐꣑꣒꣓꣔꣕꣖꣗꣘꣙꧐꧑꧒꧓꧔꧕꧖꧗꧘꧙꧰꧱꧲꧳꧴꧵꧶꧷꧸꧹꯰꯱꯲꯳꯴꯵꯶꯷꯸꯹"

\* the characters of str.isdecimal(): the regex class \d, and the digits int()
\* reads
Digits == CharsOf(DecimalDigits)

\* the characters of str.isdigit() that are not decimal digits (superscripts,
\* circled digits, ...): int() reads none of them
OtherDigits ==
  CharsIn(<<"²³¹᧚₀₁₂₃₄₅₆₇₈₉⒈⒉⒊⒋⒌⒍⒎⒏⒐⓪⓵⓶⓷⓸⓹⓺⓻⓼⓽⓿➀➁➂➃➄➅➆➇➈➊➋➌➍➎➏➐➑➒">>)

UpperLetters == {"A", "B", "C", "D", "E", "F", "G", "H", "I", "J", "K", "L", "M",
                 "N", "O", "P", "Q", "R", "S", "T", "U", "V", "W", "X", "Y", "Z"}

\* the regex class [0-9a-f:]
HexLowerColon == AsciiDigits \cup {"a", "b", "c", "d", "e", "f", ":"}

\* the regex class [0-9a-f] under re.IGNORECASE
HexAny == AsciiDigits \cup {"a", "b", "c", "d", "e", "f", "A", "B", "C", "D", "E", "F"}

\* the regex class \w: the characters of str.isalnum() and "_"
WordChars ==
  CharsIn(<<"0123456789ABCDEFGHIJKLMNOPQRSTUVWXYZ_abcdefghijklmnopqrstuvw",
            "xyzª²³µ¹º¼½¾ÀÁÂÃÄÅÆÇÈÉÊËÌÍÎÏÐÑÒÓÔÕÖØÙÚÛÜÝÞßàáâãäåæçèéêëìíîïð",
            "ñòóôõöøùúûüýþÿƀƁƂƃƄƅƆƇƈƉƊƋƌƍƎƏƐƑƒƓƔƕƖƗƘƙƚƛƜƝƞƟƠơƢƣƤƥƦƧƨƩƪƫƬƭ",
            "ƮƯưƱƲƳƴƵƶƷƸƹƺƻƼƽƾƿǀǁǂǃǄǅǆǇǈǉǊǋǌǍǎǏǐǑǒǓǔǕǖǗǘǙǚǛǜǝǞǟǠǡǢǣǤǥǦǧǨǩ",
            "ǪǫǬǭǮǯǰǱǲǳǴǵǶǷǸǹǺǻǼǽǾǿʀʁʂʃʄʅʆʇʈʉʊʋʌʍʎʏʐʑʒʓʔʕʖʗʘʙʚʛʜʝʞʟʠʡʢʣʤʥ",
            "ʦʧʨʩʪʫʬʭʮʯʰʱʲʳʴʵʶʷʸʹʺʻʼʽʾʿˀˁˆˇˈˉˊˋˌˍˎˏːˑˠˡˢˣˤˬˮΆΈΉΊΌΎΏΐΑΒΓΔΕ",
            "ΖΗΘΙΚΛΜΝΞΟΠΡΣΤΥΦΧΨΩΪΫάέήίΰαβγδεζηθικλμνξοπρςστυφχψωϊϋόύώϏϐϑϒ",
            "ϓϔϕϖϗϘϙϚϛϜϝϞϟϠϡϢϣϤϥϦϧϨϩϪϫϬϭϮϯϰϱϲϳϴϵϷϸϹϺϻϼϽϾϿҀҁҊҋҌҍҎҏҐґҒғҔҕҖҗ",
            "ҘҙҚқҜҝҞҟҠҡҢңҤҥҦҧҨҩҪҫҬҭҮүҰұҲҳҴҵҶҷҸҹҺһҼҽҾҿӀӁӂӃӄӅӆӇӈӉӊӋӌӍӎӏӐӑӒӓ",
            "ӔӕӖӗӘәӚӛӜӝӞӟӠӡӢӣӤӥӦӧӨөӪӫӬӭӮӯӰӱӲӳӴӵӶӷӸӹӺӻӼӽӾӿրցւփքօֆևֈאבגדהוז",
            "חטיךכלםמןנסעףפץצקרשתׯװױײڀځڂڃڄڅچڇڈډڊڋڌڍڎڏڐڑڒړڔڕږڗژڙښڛڜڝڞڟڠڡڢڣ",
            "ڤڥڦڧڨکڪګڬڭڮگڰڱڲڳڴڵڶڷڸڹںڻڼڽھڿۀہۂۃۄۅۆۇۈۉۊۋیۍێۏېۑےۓەۥۦۮۯ۰۱۲۳۴۵۶",
            "۷۸۹ۺۻۼۿހށނރބޅކއވމފދތލގޏސޑޒޓޔޕޖޗޘޙޚޛޜޝޞޟޠޡޢޣޤޥޱ߀߁߂߃߄߅߆߇߈߉ߊߋߌߍ",
            "ߎߏߐߑߒߓߔߕߖߗߘߙߚߛߜߝߞߟߠߡߢߣߤߥߦߧߨߩߪߴߵߺࢀࢁࢂࢃࢄࢅࢆࢇࢉࢊࢋࢌࢍࢎࢠࢡࢢࢣࢤࢥࢦࢧࢨࢩࢪࢫࢬࢭ",
            "ࢮࢯࢰࢱࢲࢳࢴࢵࢶࢷࢸࢹࢺࢻࢼࢽࢾࢿࣀࣁࣂࣃࣄࣅࣆࣇࣈࣉঀঅআইঈউঊঋঌএঐওঔকখগঘঙচছজঝঞটঠডঢণতথদধ",
            "নপফবভমযরলশষসহঽৎড়ঢ়য়ৠৡ০১২৩৪৫৬৭৮৯ৰৱ৴৵৶৷৸৹ৼઅઆઇઈઉઊઋઌઍએઐઑઓઔકખગઘઙચછ",
            "જઝઞટઠડઢણતથદધનપફબભમયરલળવશષસહઽૐૠૡ૦૧૨૩૪૫૬૭૮૯ૹஃஅஆஇஈஉஊஎஏஐஒஓஔகஙசஜஞ",
            "டணதநனபமயரறலளழவஶஷஸஹௐ௦௧௨௩௪௫௬௭௮௯௰௱௲ಀಅಆಇಈಉಊಋಌಎಏಐಒಓಔಕಖಗಘಙಚಛಜಝಞಟಠಡ",
            "ಢಣತಥದಧನಪಫಬಭಮಯರಱಲಳವಶಷಸಹಽೝೞೠೡ೦೧೨೩೪೫೬೭೮೯ೱೲඅආඇඈඉඊඋඌඍඎඏඐඑඒඓඔඕඖකඛග",
            "ඝඞඟචඡජඣඤඥඦටඨඩඪණඬතථදධනඳපඵබභමඹයරලවශෂසහළෆ෦෧෨෩෪෫෬෭෮෯ກຂຄຆງຈຉຊຌຍຎຏ",
            "ຐຑຒຓດຕຖທຘນບປຜຝພຟຠມຢຣລວຨຩສຫຬອຮຯະາຳຽເແໂໃໄໆ໐໑໒໓໔໕໖໗໘໙ໜໝໞໟྈྉྊྋྌႀ",
            "ႁႎ႐႑႒႓႔႕႖႗႘႙ႠႡႢႣႤႥႦႧႨႩႪႫႬႭႮႯႰႱႲႳႴႵႶႷႸႹႺႻႼႽႾႿჀჁჂჃჄჅჇჍაბგდევზთ",
            "იკლმნოპჟრსტუფქღყშჩცძწჭხჯჰჱჲჳჴჵჶჷჸჹჺჼჽჾჿᆀᆁᆂᆃᆄᆅᆆᆇᆈᆉᆊᆋᆌᆍᆎᆏᆐᆑᆒᆓᆔ",
            "ᆕᆖᆗᆘᆙᆚᆛᆜᆝᆞᆟᆠᆡᆢᆣᆤᆥᆦᆧᆨᆩᆪᆫᆬᆭᆮᆯᆰᆱᆲᆳᆴᆵᆶᆷᆸᆹᆺᆻᆼᆽᆾᆿᇀᇁᇂᇃᇄᇅᇆᇇᇈᇉᇊᇋᇌᇍᇎᇏᇐ",
            "ᇑᇒᇓᇔᇕᇖᇗᇘᇙᇚᇛᇜᇝᇞᇟᇠᇡᇢᇣᇤᇥᇦᇧᇨᇩᇪᇫᇬᇭᇮᇯᇰᇱᇲᇳᇴᇵᇶᇷᇸᇹᇺᇻᇼᇽᇾᇿኀኁኂኃኄኅኆኇኈኊኋኌኍ",
            "ነኑኒናኔንኖኗኘኙኚኛኜኝኞኟአኡኢኣኤእኦኧከኩኪካኬክኮኯኰኲኳኴኵኸኹኺኻኼኽኾዀዂዃዄዅወዉዊዋዌውዎዏዐዑዒ",
            "ዓዔዕዖዘዙዚዛዜዝዞዟዠዡዢዣዤዥዦዧየዩዪያዬይዮዯደዱዲዳዴድዶዷዸዹዺዻዼዽዾዿᎀᎁᎂᎃᎄᎅᎆᎇᎈᎉᎊᎋᎌᎍᎎᎏ",
            "ᎠᎡᎢᎣᎤᎥᎦᎧᎨᎩᎪᎫᎬᎭᎮᎯᎰᎱᎲᎳᎴᎵᎶᎷᎸᎹᎺᎻᎼᎽᎾᎿᏀᏁᏂᏃᏄᏅᏆᏇᏈᏉᏊᏋᏌᏍᏎᏏᏐᏑᏒᏓᏔᏕᏖᏗᏘᏙᏚᏛ",
            "ᏜᏝᏞᏟᏠᏡᏢᏣᏤᏥᏦᏧᏨᏩᏪᏫᏬᏭᏮᏯᏰᏱᏲᏳᏴᏵᏸᏹᏺᏻᏼᏽᒀᒁᒂᒃᒄᒅᒆᒇᒈᒉᒊᒋᒌᒍᒎᒏᒐᒑᒒᒓᒔᒕᒖᒗᒘᒙᒚᒛ",
            "ᒜᒝᒞᒟᒠᒡᒢᒣᒤᒥᒦᒧᒨᒩᒪᒫᒬᒭᒮᒯᒰᒱᒲᒳᒴᒵᒶᒷᒸᒹᒺᒻᒼᒽᒾᒿᓀᓁᓂᓃᓄᓅᓆᓇᓈᓉᓊᓋᓌᓍᓎᓏᓐᓑᓒᓓᓔᓕᓖᓗ",
            "ᓘᓙᓚᓛᓜᓝᓞᓟᓠᓡᓢᓣᓤᓥᓦᓧᓨᓩᓪᓫᓬᓭᓮᓯᓰᓱᓲᓳᓴᓵᓶᓷᓸᓹᓺᓻᓼᓽᓾᓿᖀᖁᖂᖃᖄᖅᖆᖇᖈᖉᖊᖋᖌᖍᖎᖏᖐᖑᖒᖓ",
            "ᖔᖕᖖᖗᖘᖙᖚᖛᖜᖝᖞᖟᖠᖡᖢᖣᖤᖥᖦᖧᖨᖩᖪᖫᖬᖭᖮᖯᖰᖱᖲᖳᖴᖵᖶᖷᖸᖹᖺᖻᖼᖽᖾᖿᗀᗁᗂᗃᗄᗅᗆᗇᗈᗉᗊᗋᗌᗍᗎᗏ",
            "ᗐᗑᗒᗓᗔᗕᗖᗗᗘᗙᗚᗛᗜᗝᗞᗟᗠᗡᗢᗣᗤᗥᗦᗧᗨᗩᗪᗫᗬᗭᗮᗯᗰᗱᗲᗳᗴᗵᗶᗷᗸᗹᗺᗻᗼᗽᗾᗿᚁᚂᚃᚄᚅᚆᚇᚈᚉᚊᚋᚌ",
            "ᚍᚎᚏᚐᚑᚒᚓᚔᚕᚖᚗᚘᚙᚚᚠᚡᚢᚣᚤᚥᚦᚧᚨᚩᚪᚫᚬᚭᚮᚯᚰᚱᚲᚳᚴᚵᚶᚷᚸᚹᚺᚻᚼᚽᚾᚿᛀᛁᛂᛃᛄᛅᛆᛇᛈᛉᛊᛋᛌᛍ",
            "ᛎᛏᛐᛑᛒᛓᛔᛕᛖᛗᛘᛙᛚᛛᛜᛝᛞᛟᛠᛡᛢᛣᛤᛥᛦᛧᛨᛩᛪᛮᛯᛰᛱᛲᛳᛴᛵᛶᛷᛸកខគឃងចឆជឈញដឋឌឍណតថទធន",
            "បផពភមយរលវឝឞសហឡអឣឤឥឦឧឨឩឪឫឬឭឮឯឰឱឲឳៗៜ០១២៣៤៥៦៧៨៩៰៱៲៳៴៵៶៷៸៹ᢀᢁᢂᢃᢄᢇ",
            "ᢈᢉᢊᢋᢌᢍᢎᢏᢐᢑᢒᢓᢔᢕᢖᢗᢘᢙᢚᢛᢜᢝᢞᢟᢠᢡᢢᢣᢤᢥᢦᢧᢨᢪᢰᢱᢲᢳᢴᢵᢶᢷᢸᢹᢺᢻᢼᢽᢾᢿᣀᣁᣂᣃᣄᣅᣆᣇᣈᣉ",
            "ᣊᣋᣌᣍᣎᣏᣐᣑᣒᣓᣔᣕᣖᣗᣘᣙᣚᣛᣜᣝᣞᣟᣠᣡᣢᣣᣤᣥᣦᣧᣨᣩᣪᣫᣬᣭᣮᣯᣰᣱᣲᣳᣴᣵᦀᦁᦂᦃᦄᦅᦆᦇᦈᦉᦊᦋᦌᦍᦎᦏ",
            "ᦐᦑᦒᦓᦔᦕᦖᦗᦘᦙᦚᦛᦜᦝᦞᦟᦠᦡᦢᦣᦤᦥᦦᦧᦨᦩᦪᦫᦰᦱᦲᦳᦴᦵᦶᦷᦸᦹᦺᦻᦼᦽᦾᦿᧀᧁᧂᧃᧄᧅᧆᧇᧈᧉ᧐᧑᧒᧓᧔᧕",
            "᧖᧗᧘᧙᧚᪀᪁᪂᪃᪄᪅᪆᪇᪈᪉᪐᪑᪒᪓᪔᪕᪖᪗᪘᪙ᪧᮃᮄᮅᮆᮇᮈᮉᮊᮋᮌᮍᮎᮏᮐᮑᮒᮓᮔᮕᮖᮗᮘᮙᮚᮛᮜᮝᮞᮟᮠᮮᮯ᮰᮱",
            "᮲᮳᮴᮵᮶᮷᮸᮹ᮺᮻᮼᮽᮾᮿᯀᯁᯂᯃᯄᯅᯆᯇᯈᯉᯊᯋᯌᯍᯎᯏᯐᯑᯒᯓᯔᯕᯖᯗᯘᯙᯚᯛᯜᯝᯞᯟᯠᯡᯢᯣᯤᯥᲀᲁᲂᲃᲄᲅᲆᲇ",
            "ᲈᲐᲑᲒᲓᲔᲕᲖᲗᲘᲙᲚᲛᲜᲝᲞᲟᲠᲡᲢᲣᲤᲥᲦᲧᲨᲩᲪᲫᲬᲭᲮᲯᲰᲱᲲᲳᲴᲵᲶᲷᲸᲹᲺᲽᲾᲿᳩᳪᳫᳬᳮᳯᳰᳱᳲᳳᳵᳶᳺ",
            "ᶀᶁᶂᶃᶄᶅᶆᶇᶈᶉᶊᶋᶌᶍᶎᶏᶐᶑᶒᶓᶔᶕᶖᶗᶘᶙᶚᶛᶜᶝᶞᶟᶠᶡᶢᶣᶤᶥᶦᶧᶨᶩᶪᶫᶬᶭᶮᶯᶰᶱᶲᶳᶴᶵᶶᶷᶸᶹᶺᶻ",
            "ᶼᶽᶾᶿẀẁẂẃẄẅẆẇẈẉẊẋẌẍẎẏẐẑẒẓẔẕẖẗẘẙẚẛẜẝẞẟẠạẢảẤấẦầẨẩẪẫẬậẮắẰằẲẳẴẵẶặ",
            "ẸẹẺẻẼẽẾếỀềỂểỄễỆệỈỉỊịỌọỎỏỐốỒồỔổỖỗỘộỚớỜờỞởỠỡỢợỤụỦủỨứỪừỬửỮữỰựỲỳ",
            "ỴỵỶỷỸỹỺỻỼỽỾỿᾀᾁᾂᾃᾄᾅᾆᾇᾈᾉᾊᾋᾌᾍᾎᾏᾐᾑᾒᾓᾔᾕᾖᾗᾘᾙᾚᾛᾜᾝᾞᾟᾠᾡᾢᾣᾤᾥᾦᾧᾨᾩᾪᾫᾬᾭᾮᾯ",
            "ᾰᾱᾲᾳᾴᾶᾷᾸᾹᾺΆᾼιῂῃῄῆῇῈΈῊΉῌῐῑῒΐῖῗῘῙῚΊῠῡῢΰῤῥῦῧῨῩῪΎῬῲῳῴῶῷῸΌῺΏῼ₀₁₂₃",
            "₄₅₆₇₈₉ₐₑₒₓₔₕₖₗₘₙₚₛₜↀↁↂↃↄↅↆↇↈ↉⒀⒁⒂⒃⒄⒅⒆⒇⒈⒉⒊⒋⒌⒍⒎⒏⒐⒑⒒⒓⒔⒕⒖⒗⒘⒙⒚⒛⓪⓫⓬",
            "⓭⓮⓯⓰⓱⓲⓳⓴⓵⓶⓷⓸⓹⓺⓻⓼⓽⓾⓿➀➁➂➃➄➅➆➇➈➉➊➋➌➍➎➏➐➑➒➓ⲀⲁⲂⲃⲄⲅⲆⲇⲈⲉⲊⲋⲌⲍⲎⲏⲐⲑⲒⲓⲔ",
            "ⲕⲖⲗⲘⲙⲚⲛⲜⲝⲞⲟⲠⲡⲢⲣⲤⲥⲦⲧⲨⲩⲪⲫⲬⲭⲮⲯⲰⲱⲲⲳⲴⲵⲶⲷⲸⲹⲺⲻⲼⲽⲾⲿⳀⳁⳂⳃⳄⳅⳆⳇⳈⳉⳊⳋⳌⳍⳎⳏⳐ",
            "ⳑⳒⳓⳔⳕⳖⳗⳘⳙⳚⳛⳜⳝⳞⳟⳠⳡⳢⳣⳤⳫⳬⳭⳮⳲⳳ⳽ⶀⶁⶂⶃⶄⶅⶆⶇⶈⶉⶊⶋⶌⶍⶎⶏⶐⶑⶒⶓⶔⶕⶖⶠⶡⶢⶣⶤⶥⶦⶨⶩⶪ",
            "ⶫⶬⶭⶮⶰⶱⶲⶳⶴⶵⶶⶸⶹⶺⶻⶼⶽⶾⷀⷁⷂⷃⷄⷅⷆⷈⷉⷊⷋⷌⷍⷎⷐⷑⷒⷓⷔⷕⷖⷘⷙⷚⷛⷜⷝⷞむめもゃやゅゆょよらりるれろ",
            "ゎわゐゑをんゔゕゖゝゞゟァアィイゥウェエォオカガキギクグケゲコゴサザシジスズセゼソゾタダチヂッツヅテデトドナニヌネノハバ",
            "パヒビピフブプヘベペホボポマミムメモャヤュユョヨラリルレロヮワヰヱヲンヴヵヶヷヸヹヺーヽヾヿㆀㆁㆂㆃㆄㆅㆆㆇㆈㆉㆊㆋㆌㆍ",
            "ㆎ㆒㆓㆔㆕ㆠㆡㆢㆣㆤㆥㆦㆧㆨㆩㆪㆫㆬㆭㆮㆯㆰㆱㆲㆳㆴㆵㆶㆷㆸㆹㆺㆻㆼㆽㆾㆿㇰㇱㇲㇳㇴㇵㇶㇷㇸㇹㇺㇻㇼㇽㇾㇿ㊀㊁㊂㊃㊄㊅㊆",
            "㊇㊈㊉㊱㊲㊳㊴㊵㊶㊷㊸㊹㊺㊻㊼㊽㊾㊿㒀㒁㒂㒃㒄㒅㒆㒇㒈㒉㒊㒋㒌㒍㒎㒏㒐㒑㒒㒓㒔㒕㒖㒗㒘㒙㒚㒛㒜㒝㒞㒟㒠㒡㒢㒣㒤㒥㒦㒧㒨㒩",
            "㒪㒫㒬㒭㒮㒯㒰㒱㒲㒳㒴㒵㒶㒷㒸㒹㒺㒻㒼㒽㒾㒿㓀㓁㓂㓃㓄㓅㓆㓇㓈㓉㓊㓋㓌㓍㓎㓏㓐㓑㓒㓓㓔㓕㓖㓗㓘㓙㓚㓛㓜㓝㓞㓟㓠㓡㓢㓣㓤㓥",
            "㓦㓧㓨㓩㓪㓫㓬㓭㓮㓯㓰㓱㓲㓳㓴㓵㓶㓷㓸㓹㓺㓻㓼㓽㓾㓿㖀㖁㖂㖃㖄㖅㖆㖇㖈㖉㖊㖋㖌㖍㖎㖏㖐㖑㖒㖓㖔㖕㖖㖗㖘㖙㖚㖛㖜㖝㖞㖟㖠㖡",
            "㖢㖣㖤㖥㖦㖧㖨㖩㖪㖫㖬㖭㖮㖯㖰㖱㖲㖳㖴㖵㖶㖷㖸㖹㖺㖻㖼㖽㖾㖿㗀㗁㗂㗃㗄㗅㗆㗇㗈㗉㗊㗋㗌㗍㗎㗏㗐㗑㗒㗓㗔㗕㗖㗗㗘㗙㗚㗛㗜㗝",
            "㗞㗟㗠㗡㗢㗣㗤㗥㗦㗧㗨㗩㗪㗫㗬㗭㗮㗯㗰㗱㗲㗳㗴㗵㗶㗷㗸㗹㗺㗻㗼㗽㗾㗿㚀㚁㚂㚃㚄㚅㚆㚇㚈㚉㚊㚋㚌㚍㚎㚏㚐㚑㚒㚓㚔㚕㚖㚗㚘㚙",
            "㚚㚛㚜㚝㚞㚟㚠㚡㚢㚣㚤㚥㚦㚧㚨㚩㚪㚫㚬㚭㚮㚯㚰㚱㚲㚳㚴㚵㚶㚷㚸㚹㚺㚻㚼㚽㚾㚿㛀㛁㛂㛃㛄㛅㛆㛇㛈㛉㛊㛋㛌㛍㛎㛏㛐㛑㛒㛓㛔㛕",
            "㛖㛗㛘㛙㛚㛛㛜㛝㛞㛟㛠㛡㛢㛣㛤㛥㛦㛧㛨㛩㛪㛫㛬㛭㛮㛯㛰㛱㛲㛳㛴㛵㛶㛷㛸㛹㛺㛻㛼㛽㛾㛿㞀㞁㞂㞃㞄㞅㞆㞇㞈㞉㞊㞋㞌㞍㞎㞏㞐㞑",
            "㞒㞓㞔㞕㞖㞗㞘㞙㞚㞛㞜㞝㞞㞟㞠㞡㞢㞣㞤㞥㞦㞧㞨㞩㞪㞫㞬㞭㞮㞯㞰㞱㞲㞳㞴㞵㞶㞷㞸㞹㞺㞻㞼㞽㞾㞿㟀㟁㟂㟃㟄㟅㟆㟇㟈㟉㟊㟋㟌㟍",
            "㟎㟏㟐㟑㟒㟓㟔㟕㟖㟗㟘㟙㟚㟛㟜㟝㟞㟟㟠㟡㟢㟣㟤㟥㟦㟧㟨㟩㟪㟫㟬㟭㟮㟯㟰㟱㟲㟳㟴㟵㟶㟷㟸㟹㟺㟻㟼㟽㟾㟿㢀㢁㢂㢃㢄㢅㢆㢇㢈㢉",
            "㢊㢋㢌㢍㢎㢏㢐㢑㢒㢓㢔㢕㢖㢗㢘㢙㢚㢛㢜㢝㢞㢟㢠㢡㢢㢣㢤㢥㢦㢧㢨㢩㢪㢫㢬㢭㢮㢯㢰㢱㢲㢳㢴㢵㢶㢷㢸㢹㢺㢻㢼㢽㢾㢿㣀㣁㣂㣃㣄㣅",
            "㣆㣇㣈㣉㣊㣋㣌㣍㣎㣏㣐㣑㣒㣓㣔㣕㣖㣗㣘㣙㣚㣛㣜㣝㣞㣟㣠㣡㣢㣣㣤㣥㣦㣧㣨㣩㣪㣫㣬㣭㣮㣯㣰㣱㣲㣳㣴㣵㣶㣷㣸㣹㣺㣻㣼㣽㣾㣿㦀㦁",
            "㦂㦃㦄㦅㦆㦇㦈㦉㦊㦋㦌㦍㦎㦏㦐㦑㦒㦓㦔㦕㦖㦗㦘㦙㦚㦛㦜㦝㦞㦟㦠㦡㦢㦣㦤㦥㦦㦧㦨㦩㦪㦫㦬㦭㦮㦯㦰㦱㦲㦳㦴㦵㦶㦷㦸㦹㦺㦻㦼㦽",
            "㦾㦿㧀㧁㧂㧃㧄㧅㧆㧇㧈㧉㧊㧋㧌㧍㧎㧏㧐㧑㧒㧓㧔㧕㧖㧗㧘㧙㧚㧛㧜㧝㧞㧟㧠㧡㧢㧣㧤㧥㧦㧧㧨㧩㧪㧫㧬㧭㧮㧯㧰㧱㧲㧳㧴㧵㧶㧷㧸㧹",
            "㧺㧻㧼㧽㧾㧿㪀㪁㪂㪃㪄㪅㪆㪇㪈㪉㪊㪋㪌㪍㪎㪏㪐㪑㪒㪓㪔㪕㪖㪗㪘㪙㪚㪛㪜㪝㪞㪟㪠㪡㪢㪣㪤㪥㪦㪧㪨㪩㪪㪫㪬㪭㪮㪯㪰㪱㪲㪳㪴㪵",
            "㪶㪷㪸㪹㪺㪻㪼㪽㪾㪿㫀㫁㫂㫃㫄㫅㫆㫇㫈㫉㫊㫋㫌㫍㫎㫏㫐㫑㫒㫓㫔㫕㫖㫗㫘㫙㫚㫛㫜㫝㫞㫟㫠㫡㫢㫣㫤㫥㫦㫧㫨㫩㫪㫫㫬㫭㫮㫯㫰㫱",
            "㫲㫳㫴㫵㫶㫷㫸㫹㫺㫻㫼㫽㫾㫿㮀㮁㮂㮃㮄㮅㮆㮇㮈㮉㮊㮋㮌㮍㮎㮏㮐㮑㮒㮓㮔㮕㮖㮗㮘㮙㮚㮛㮜㮝㮞㮟㮠㮡㮢㮣㮤㮥㮦㮧㮨㮩㮪㮫㮬㮭",
            "㮮㮯㮰㮱㮲㮳㮴㮵㮶㮷㮸㮹㮺㮻㮼㮽㮾㮿㯀㯁㯂㯃㯄㯅㯆㯇㯈㯉㯊㯋㯌㯍㯎㯏㯐㯑㯒㯓㯔㯕㯖㯗㯘㯙㯚㯛㯜㯝㯞㯟㯠㯡㯢㯣㯤㯥㯦㯧㯨㯩",
            "㯪㯫㯬㯭㯮㯯㯰㯱㯲㯳㯴㯵㯶㯷㯸㯹㯺㯻㯼㯽㯾㯿㲀㲁㲂㲃㲄㲅㲆㲇㲈㲉㲊㲋㲌㲍㲎㲏㲐㲑㲒㲓㲔㲕㲖㲗㲘㲙㲚㲛㲜㲝㲞㲟㲠㲡㲢㲣㲤㲥",
            "㲦㲧㲨㲩㲪㲫㲬㲭㲮㲯㲰㲱㲲㲳㲴㲵㲶㲷㲸㲹㲺㲻㲼㲽㲾㲿㳀㳁㳂㳃㳄㳅㳆㳇㳈㳉㳊㳋㳌㳍㳎㳏㳐㳑㳒㳓㳔㳕㳖㳗㳘㳙㳚㳛㳜㳝㳞㳟㳠㳡",
            "㳢㳣㳤㳥㳦㳧㳨㳩㳪㳫㳬㳭㳮㳯㳰㳱㳲㳳㳴㳵㳶㳷㳸㳹㳺㳻㳼㳽㳾㳿㶀㶁㶂㶃㶄㶅㶆㶇㶈㶉㶊㶋㶌㶍㶎㶏㶐㶑㶒㶓㶔㶕㶖㶗㶘㶙㶚㶛㶜㶝",
            "㶞㶟㶠㶡㶢㶣㶤㶥㶦㶧㶨㶩㶪㶫㶬㶭㶮㶯㶰㶱㶲㶳㶴㶵㶶㶷㶸㶹㶺㶻㶼㶽㶾㶿㷀㷁㷂㷃㷄㷅㷆㷇㷈㷉㷊㷋㷌㷍㷎㷏㷐㷑㷒㷓㷔㷕㷖㷗㷘㷙",
            "㷚㷛㷜㷝㷞㷟㷠㷡㷢㷣㷤㷥㷦㷧㷨㷩㷪㷫㷬㷭㷮㷯㷰㷱㷲㷳㷴㷵㷶㷷㷸㷹㷺㷻㷼㷽㷾㷿㺀㺁㺂㺃㺄㺅㺆㺇㺈㺉㺊㺋㺌㺍㺎㺏㺐㺑㺒㺓㺔㺕",
            "㺖㺗㺘㺙㺚㺛㺜㺝㺞㺟㺠㺡㺢㺣㺤㺥㺦㺧㺨㺩㺪㺫㺬㺭㺮㺯㺰㺱㺲㺳㺴㺵㺶㺷㺸㺹㺺㺻㺼㺽㺾㺿㻀㻁㻂㻃㻄㻅㻆㻇㻈㻉㻊㻋㻌㻍㻎㻏㻐㻑",
            "㻒㻓㻔㻕㻖㻗㻘㻙㻚㻛㻜㻝㻞㻟㻠㻡㻢㻣㻤㻥㻦㻧㻨㻩㻪㻫㻬㻭㻮㻯㻰㻱㻲㻳㻴㻵㻶㻷㻸㻹㻺㻻㻼㻽㻾㻿㾀㾁㾂㾃㾄㾅㾆㾇㾈㾉㾊㾋㾌㾍",
            "㾎㾏㾐㾑㾒㾓㾔㾕㾖㾗㾘㾙㾚㾛㾜㾝㾞㾟㾠㾡㾢㾣㾤㾥㾦㾧㾨㾩㾪㾫㾬㾭㾮㾯㾰㾱㾲㾳㾴㾵㾶㾷㾸㾹㾺㾻㾼㾽㾾㾿㿀㿁㿂㿃㿄㿅㿆㿇㿈㿉",
            "㿊㿋㿌㿍㿎㿏㿐㿑㿒㿓㿔㿕㿖㿗㿘㿙㿚㿛㿜㿝㿞㿟㿠㿡㿢㿣㿤㿥㿦㿧㿨㿩㿪㿫㿬㿭㿮㿯㿰㿱㿲㿳㿴㿵㿶㿷㿸㿹㿺㿻㿼㿽㿾㿿䂀䂁䂂䂃䂄䂅",
            "䂆䂇䂈䂉䂊䂋䂌䂍䂎䂏䂐䂑䂒䂓䂔䂕䂖䂗䂘䂙䂚䂛䂜䂝䂞䂟䂠䂡䂢䂣䂤䂥䂦䂧䂨䂩䂪䂫䂬䂭䂮䂯䂰䂱䂲䂳䂴䂵䂶䂷䂸䂹䂺䂻䂼䂽䂾䂿䃀䃁",
            "䃂䃃䃄䃅䃆䃇䃈䃉䃊䃋䃌䃍䃎䃏䃐䃑䃒䃓䃔䃕䃖䃗䃘䃙䃚䃛䃜䃝䃞䃟䃠䃡䃢䃣䃤䃥䃦䃧䃨䃩䃪䃫䃬䃭䃮䃯䃰䃱䃲䃳䃴䃵䃶䃷䃸䃹䃺䃻䃼䃽",
            "䃾䃿䆀䆁䆂䆃䆄䆅䆆䆇䆈䆉䆊䆋䆌䆍䆎䆏䆐䆑䆒䆓䆔䆕䆖䆗䆘䆙䆚䆛䆜䆝䆞䆟䆠䆡䆢䆣䆤䆥䆦䆧䆨䆩䆪䆫䆬䆭䆮䆯䆰䆱䆲䆳䆴䆵䆶䆷䆸䆹",
            "䆺䆻䆼䆽䆾䆿䇀䇁䇂䇃䇄䇅䇆䇇䇈䇉䇊䇋䇌䇍䇎䇏䇐䇑䇒䇓䇔䇕䇖䇗䇘䇙䇚䇛䇜䇝䇞䇟䇠䇡䇢䇣䇤䇥䇦䇧䇨䇩䇪䇫䇬䇭䇮䇯䇰䇱䇲䇳䇴䇵",
            "䇶䇷䇸䇹䇺䇻䇼䇽䇾䇿䊀䊁䊂䊃䊄䊅䊆䊇䊈䊉䊊䊋䊌䊍䊎䊏䊐䊑䊒䊓䊔䊕䊖䊗䊘䊙䊚䊛䊜䊝䊞䊟䊠䊡䊢䊣䊤䊥䊦䊧䊨䊩䊪䊫䊬䊭䊮䊯䊰䊱",
            "䊲䊳䊴䊵䊶䊷䊸䊹䊺䊻䊼䊽䊾䊿䋀䋁䋂䋃䋄䋅䋆䋇䋈䋉䋊䋋䋌䋍䋎䋏䋐䋑䋒䋓䋔䋕䋖䋗䋘䋙䋚䋛䋜䋝䋞䋟䋠䋡䋢䋣䋤䋥䋦䋧䋨䋩䋪䋫䋬䋭",
            "䋮䋯䋰䋱䋲䋳䋴䋵䋶䋷䋸䋹䋺䋻䋼䋽䋾䋿䎀䎁䎂䎃䎄䎅䎆䎇䎈䎉䎊䎋䎌䎍䎎䎏䎐䎑䎒䎓䎔䎕䎖䎗䎘䎙䎚䎛䎜䎝䎞䎟䎠䎡䎢䎣䎤䎥䎦䎧䎨䎩",
            "䎪䎫䎬䎭䎮䎯䎰䎱䎲䎳䎴䎵䎶䎷䎸䎹䎺䎻䎼䎽䎾䎿䏀䏁䏂䏃䏄䏅䏆䏇䏈䏉䏊䏋䏌䏍䏎䏏䏐䏑䏒䏓䏔䏕䏖䏗䏘䏙䏚䏛䏜䏝䏞䏟䏠䏡䏢䏣䏤䏥",
            "䏦䏧䏨䏩䏪䏫䏬䏭䏮䏯䏰䏱䏲䏳䏴䏵䏶䏷䏸䏹䏺䏻䏼䏽䏾䏿䒀䒁䒂䒃䒄䒅䒆䒇䒈䒉䒊䒋䒌䒍䒎䒏䒐䒑䒒䒓䒔䒕䒖䒗䒘䒙䒚䒛䒜䒝䒞䒟䒠䒡",
            "䒢䒣䒤䒥䒦䒧䒨䒩䒪䒫䒬䒭䒮䒯䒰䒱䒲䒳䒴䒵䒶䒷䒸䒹䒺䒻䒼䒽䒾䒿䓀䓁䓂䓃䓄䓅䓆䓇䓈䓉䓊䓋䓌䓍䓎䓏䓐䓑䓒䓓䓔䓕䓖䓗䓘䓙䓚䓛䓜䓝",
            "䓞䓟䓠䓡䓢䓣䓤䓥䓦䓧䓨䓩䓪䓫䓬䓭䓮䓯䓰䓱䓲䓳䓴䓵䓶䓷䓸䓹䓺䓻䓼䓽䓾䓿䖀䖁䖂䖃䖄䖅䖆䖇䖈䖉䖊䖋䖌䖍䖎䖏䖐䖑䖒䖓䖔䖕䖖䖗䖘䖙",
            "䖚䖛䖜䖝䖞䖟䖠䖡䖢䖣䖤䖥䖦䖧䖨䖩䖪䖫䖬䖭䖮䖯䖰䖱䖲䖳䖴䖵䖶䖷䖸䖹䖺䖻䖼䖽䖾䖿䗀䗁䗂䗃䗄䗅䗆䗇䗈䗉䗊䗋䗌䗍䗎䗏䗐䗑䗒䗓䗔䗕",
            "䗖䗗䗘䗙䗚䗛䗜䗝䗞䗟䗠䗡䗢䗣䗤䗥䗦䗧䗨䗩䗪䗫䗬䗭䗮䗯䗰䗱䗲䗳䗴䗵䗶䗷䗸䗹䗺䗻䗼䗽䗾䗿䚀䚁䚂䚃䚄䚅䚆䚇䚈䚉䚊䚋䚌䚍䚎䚏䚐䚑",
            "䚒䚓䚔䚕䚖䚗䚘䚙䚚䚛䚜䚝䚞䚟䚠䚡䚢䚣䚤䚥䚦䚧䚨䚩䚪䚫䚬䚭䚮䚯䚰䚱䚲䚳䚴䚵䚶䚷䚸䚹䚺䚻䚼䚽䚾䚿䛀䛁䛂䛃䛄䛅䛆䛇䛈䛉䛊䛋䛌䛍",
            "䛎䛏䛐䛑䛒䛓䛔䛕䛖䛗䛘䛙䛚䛛䛜䛝䛞䛟䛠䛡䛢䛣䛤䛥䛦䛧䛨䛩䛪䛫䛬䛭䛮䛯䛰䛱䛲䛳䛴䛵䛶䛷䛸䛹䛺䛻䛼䛽䛾䛿䞀䞁䞂䞃䞄䞅䞆䞇䞈䞉",
            "䞊䞋䞌䞍䞎䞏䞐䞑䞒䞓䞔䞕䞖䞗䞘䞙䞚䞛䞜䞝䞞䞟䞠䞡䞢䞣䞤䞥䞦䞧䞨䞩䞪䞫䞬䞭䞮䞯䞰䞱䞲䞳䞴䞵䞶䞷䞸䞹䞺䞻䞼䞽䞾䞿䟀䟁䟂䟃䟄䟅",
            "䟆䟇䟈䟉䟊䟋䟌䟍䟎䟏䟐䟑䟒䟓䟔䟕䟖䟗䟘䟙䟚䟛䟜䟝䟞䟟䟠䟡䟢䟣䟤䟥䟦䟧䟨䟩䟪䟫䟬䟭䟮䟯䟰䟱䟲䟳䟴䟵䟶䟷䟸䟹䟺䟻䟼䟽䟾䟿䢀䢁",
            "䢂䢃䢄䢅䢆䢇䢈䢉䢊䢋䢌䢍䢎䢏䢐䢑䢒䢓䢔䢕䢖䢗䢘䢙䢚䢛䢜䢝䢞䢟䢠䢡䢢䢣䢤䢥䢦䢧䢨䢩䢪䢫䢬䢭䢮䢯䢰䢱䢲䢳䢴䢵䢶䢷䢸䢹䢺䢻䢼䢽",
            "䢾䢿䣀䣁䣂䣃䣄䣅䣆䣇䣈䣉䣊䣋䣌䣍䣎䣏䣐䣑䣒䣓䣔䣕䣖䣗䣘䣙䣚䣛䣜䣝䣞䣟䣠䣡䣢䣣䣤䣥䣦䣧䣨䣩䣪䣫䣬䣭䣮䣯䣰䣱䣲䣳䣴䣵䣶䣷䣸䣹",
            "䣺䣻䣼䣽䣾䣿䦀䦁䦂䦃䦄䦅䦆䦇䦈䦉䦊䦋䦌䦍䦎䦏䦐䦑䦒䦓䦔䦕䦖䦗䦘䦙䦚䦛䦜䦝䦞䦟䦠䦡䦢䦣䦤䦥䦦䦧䦨䦩䦪䦫䦬䦭䦮䦯䦰䦱䦲䦳䦴䦵",
            "䦶䦷䦸䦹䦺䦻䦼䦽䦾䦿䧀䧁䧂䧃䧄䧅䧆䧇䧈䧉䧊䧋䧌䧍䧎䧏䧐䧑䧒䧓䧔䧕䧖䧗䧘䧙䧚䧛䧜䧝䧞䧟䧠䧡䧢䧣䧤䧥䧦䧧䧨䧩䧪䧫䧬䧭䧮䧯䧰䧱",
            "䧲䧳䧴䧵䧶䧷䧸䧹䧺䧻䧼䧽䧾䧿䪀䪁䪂䪃䪄䪅䪆䪇䪈䪉䪊䪋䪌䪍䪎䪏䪐䪑䪒䪓䪔䪕䪖䪗䪘䪙䪚䪛䪜䪝䪞䪟䪠䪡䪢䪣䪤䪥䪦䪧䪨䪩䪪䪫䪬䪭",
            "䪮䪯䪰䪱䪲䪳䪴䪵䪶䪷䪸䪹䪺䪻䪼䪽䪾䪿䫀䫁䫂䫃䫄䫅䫆䫇䫈䫉䫊䫋䫌䫍䫎䫏䫐䫑䫒䫓䫔䫕䫖䫗䫘䫙䫚䫛䫜䫝䫞䫟䫠䫡䫢䫣䫤䫥䫦䫧䫨䫩",
            "䫪䫫䫬䫭䫮䫯䫰䫱䫲䫳䫴䫵䫶䫷䫸䫹䫺䫻䫼䫽䫾䫿䮀䮁䮂䮃䮄䮅䮆䮇䮈䮉䮊䮋䮌䮍䮎䮏䮐䮑䮒䮓䮔䮕䮖䮗䮘䮙䮚䮛䮜䮝䮞䮟䮠䮡䮢䮣䮤䮥",
            "䮦䮧䮨䮩䮪䮫䮬䮭䮮䮯䮰䮱䮲䮳䮴䮵䮶䮷䮸䮹䮺䮻䮼䮽䮾䮿䯀䯁䯂䯃䯄䯅䯆䯇䯈䯉䯊䯋䯌䯍䯎䯏䯐䯑䯒䯓䯔䯕䯖䯗䯘䯙䯚䯛䯜䯝䯞䯟䯠䯡",
            "䯢䯣䯤䯥䯦䯧䯨䯩䯪䯫䯬䯭䯮䯯䯰䯱䯲䯳䯴䯵䯶䯷䯸䯹䯺䯻䯼䯽䯾䯿䲀䲁䲂䲃䲄䲅䲆䲇䲈䲉䲊䲋䲌䲍䲎䲏䲐䲑䲒䲓䲔䲕䲖䲗䲘䲙䲚䲛䲜䲝",
            "䲞䲟䲠䲡䲢䲣䲤䲥䲦䲧䲨䲩䲪䲫䲬䲭䲮䲯䲰䲱䲲䲳䲴䲵䲶䲷䲸䲹䲺䲻䲼䲽䲾䲿䳀䳁䳂䳃䳄䳅䳆䳇䳈䳉䳊䳋䳌䳍䳎䳏䳐䳑䳒䳓䳔䳕䳖䳗䳘䳙",
            "䳚䳛䳜䳝䳞䳟䳠䳡䳢䳣䳤䳥䳦䳧䳨䳩䳪䳫䳬䳭䳮䳯䳰䳱䳲䳳䳴䳵䳶䳷䳸䳹䳺䳻䳼䳽䳾䳿䶀䶁䶂䶃䶄䶅䶆䶇䶈䶉䶊䶋䶌䶍䶎䶏䶐䶑䶒䶓䶔䶕",
            "䶖䶗䶘䶙䶚䶛䶜䶝䶞䶟䶠䶡䶢䶣䶤䶥䶦䶧䶨䶩䶪䶫䶬䶭䶮䶯䶰䶱䶲䶳䶴䶵䶶䶷䶸䶹䶺䶻䶼䶽䶾䶿亀亁亂亃亄亅了亇予争亊事二亍于亏亐云",
            "互亓五井亖亗亘亙亚些亜亝亞亟亠亡亢亣交亥亦产亨亩亪享京亭亮亯亰亱亲亳亴亵亶亷亸亹人亻亼亽亾亿什仁仂仃仄仅仆仇仈仉今介仌仍",
            "从仏仐仑仒仓仔仕他仗付仙仚仛仜仝仞仟仠仡仢代令以仦仧仨仩仪仫们仭仮仯仰仱仲仳仴仵件价仸仹仺任仼份仾仿侀侁侂侃侄侅來侇侈侉",
            "侊例侌侍侎侏侐侑侒侓侔侕侖侗侘侙侚供侜依侞侟侠価侢侣侤侥侦侧侨侩侪侫侬侭侮侯侰侱侲侳侴侵侶侷侸侹侺侻侼侽侾便俀俁係促俄俅",
            "俆俇俈俉俊俋俌俍俎俏俐俑俒俓俔俕俖俗俘俙俚俛俜保俞俟俠信俢俣俤俥俦俧俨俩俪俫俬俭修俯俰俱俲俳俴俵俶俷俸俹俺俻俼俽俾俿傀傁",
            "傂傃傄傅傆傇傈傉傊傋傌傍傎傏傐傑傒傓傔傕傖傗傘備傚傛傜傝傞傟傠傡傢傣傤傥傦傧储傩傪傫催傭傮傯傰傱傲傳傴債傶傷傸傹傺傻傼傽",
            "傾傿僀僁僂僃僄僅僆僇僈僉僊僋僌働僎像僐僑僒僓僔僕僖僗僘僙僚僛僜僝僞僟僠僡僢僣僤僥僦僧僨僩僪僫僬僭僮僯僰僱僲僳僴僵僶僷僸價",
            "僺僻僼僽僾僿冀冁冂冃冄内円冇冈冉冊冋册再冎冏冐冑冒冓冔冕冖冗冘写冚军农冝冞冟冠冡冢冣冤冥冦冧冨冩冪冫冬冭冮冯冰冱冲决冴况",
            "冶冷冸冹冺冻冼冽冾冿净凁凂凃凄凅准凇凈凉凊凋凌凍凎减凐凑凒凓凔凕凖凗凘凙凚凛凜凝凞凟几凡凢凣凤凥処凧凨凩凪凫凬凭凮凯凰凱",
            "凲凳凴凵凶凷凸凹出击凼函凾凿劀劁劂劃劄劅劆劇劈劉劊劋劌劍劎劏劐劑劒劓劔劕劖劗劘劙劚力劜劝办功加务劢劣劤劥劦劧动助努劫劬劭",
            "劮劯劰励劲劳労劵劶劷劸効劺劻劼劽劾势勀勁勂勃勄勅勆勇勈勉勊勋勌勍勎勏勐勑勒勓勔動勖勗勘務勚勛勜勝勞募勠勡勢勣勤勥勦勧勨勩",
            "勪勫勬勭勮勯勰勱勲勳勴勵勶勷勸勹勺勻勼勽勾勿厀厁厂厃厄厅历厇厈厉厊压厌厍厎厏厐厑厒厓厔厕厖厗厘厙厚厛厜厝厞原厠厡厢厣厤厥",
            "厦厧厨厩厪厫厬厭厮厯厰厱厲厳厴厵厶厷厸厹厺去厼厽厾县叀叁参參叄叅叆叇又叉及友双反収叏叐发叒叓叔叕取受变叙叚叛叜叝叞叟叠叡",
            "叢口古句另叧叨叩只叫召叭叮可台叱史右叴叵叶号司叹叺叻叼叽叾叿咀咁咂咃咄咅咆咇咈咉咊咋和咍咎咏咐咑咒咓咔咕咖咗咘咙咚咛咜咝",
            "咞咟咠咡咢咣咤咥咦咧咨咩咪咫咬咭咮咯咰咱咲咳咴咵咶咷咸咹咺咻咼咽咾咿哀品哂哃哄哅哆哇哈哉哊哋哌响哎哏哐哑哒哓哔哕哖哗哘哙",
            "哚哛哜哝哞哟哠員哢哣哤哥哦哧哨哩哪哫哬哭哮哯哰哱哲哳哴哵哶哷哸哹哺哻哼哽哾哿喀喁喂喃善喅喆喇喈喉喊喋喌喍喎喏喐喑喒喓喔喕",
            "喖喗喘喙喚喛喜喝喞喟喠喡喢喣喤喥喦喧喨喩喪喫喬喭單喯喰喱喲喳喴喵営喷喸喹喺喻喼喽喾喿嗀嗁嗂嗃嗄嗅嗆嗇嗈嗉嗊嗋嗌嗍嗎嗏嗐嗑",
            "嗒嗓嗔嗕嗖嗗嗘嗙嗚嗛嗜嗝嗞嗟嗠嗡嗢嗣嗤嗥嗦嗧嗨嗩嗪嗫嗬嗭嗮嗯嗰嗱嗲嗳嗴嗵嗶嗷嗸嗹嗺嗻嗼嗽嗾嗿嚀嚁嚂嚃嚄嚅嚆嚇嚈嚉嚊嚋嚌嚍",
            "嚎嚏嚐嚑嚒嚓嚔嚕嚖嚗嚘嚙嚚嚛嚜嚝嚞嚟嚠嚡嚢嚣嚤嚥嚦嚧嚨嚩嚪嚫嚬嚭嚮嚯嚰嚱嚲嚳嚴嚵嚶嚷嚸嚹嚺嚻嚼嚽嚾嚿囀囁囂囃囄囅囆囇囈囉",
            "囊囋囌囍囎囏囐囑囒囓囔囕囖囗囘囙囚四囜囝回囟因囡团団囤囥囦囧囨囩囪囫囬园囮囯困囱囲図围囵囶囷囸囹固囻囼国图囿垀垁垂垃垄垅",
            "垆垇垈垉垊型垌垍垎垏垐垑垒垓垔垕垖垗垘垙垚垛垜垝垞垟垠垡垢垣垤垥垦垧垨垩垪垫垬垭垮垯垰垱垲垳垴垵垶垷垸垹垺垻垼垽垾垿埀埁",
            "埂埃埄埅埆埇埈埉埊埋埌埍城埏埐埑埒埓埔埕埖埗埘埙埚埛埜埝埞域埠埡埢埣埤埥埦埧埨埩埪埫埬埭埮埯埰埱埲埳埴埵埶執埸培基埻埼埽",
            "埾埿墀墁墂境墄墅墆墇墈墉墊墋墌墍墎墏墐墑墒墓墔墕墖増墘墙墚墛墜墝增墟墠墡墢墣墤墥墦墧墨墩墪墫墬墭墮墯墰墱墲墳墴墵墶墷墸墹",
            "墺墻墼墽墾墿壀壁壂壃壄壅壆壇壈壉壊壋壌壍壎壏壐壑壒壓壔壕壖壗壘壙壚壛壜壝壞壟壠壡壢壣壤壥壦壧壨壩壪士壬壭壮壯声壱売壳壴壵",
            "壶壷壸壹壺壻壼壽壾壿妀妁如妃妄妅妆妇妈妉妊妋妌妍妎妏妐妑妒妓妔妕妖妗妘妙妚妛妜妝妞妟妠妡妢妣妤妥妦妧妨妩妪妫妬妭妮妯妰妱",
            "妲妳妴妵妶妷妸妹妺妻妼妽妾妿姀姁姂姃姄姅姆姇姈姉姊始姌姍姎姏姐姑姒姓委姕姖姗姘姙姚姛姜姝姞姟姠姡姢姣姤姥姦姧姨姩姪姫姬姭",
            "姮姯姰姱姲姳姴姵姶姷姸姹姺姻姼姽姾姿媀媁媂媃媄媅媆媇媈媉媊媋媌媍媎媏媐媑媒媓媔媕媖媗媘媙媚媛媜媝媞媟媠媡媢媣媤媥媦媧媨媩",
            "媪媫媬媭媮媯媰媱媲媳媴媵媶媷媸媹媺媻媼媽媾媿嫀嫁嫂嫃嫄嫅嫆嫇嫈嫉嫊嫋嫌嫍嫎嫏嫐嫑嫒嫓嫔嫕嫖嫗嫘嫙嫚嫛嫜嫝嫞嫟嫠嫡嫢嫣嫤嫥",
            "嫦嫧嫨嫩嫪嫫嫬嫭嫮嫯嫰嫱嫲嫳嫴嫵嫶嫷嫸嫹嫺嫻嫼嫽嫾嫿宀宁宂它宄宅宆宇守安宊宋完宍宎宏宐宑宒宓宔宕宖宗官宙定宛宜宝实実宠审",
            "客宣室宥宦宧宨宩宪宫宬宭宮宯宰宱宲害宴宵家宷宸容宺宻宼宽宾宿寀寁寂寃寄寅密寇寈寉寊寋富寍寎寏寐寑寒寓寔寕寖寗寘寙寚寛寜寝",
            "寞察寠寡寢寣寤寥實寧寨審寪寫寬寭寮寯寰寱寲寳寴寵寶寷寸对寺寻导寽対寿岀岁岂岃岄岅岆岇岈岉岊岋岌岍岎岏岐岑岒岓岔岕岖岗岘岙",
            "岚岛岜岝岞岟岠岡岢岣岤岥岦岧岨岩岪岫岬岭岮岯岰岱岲岳岴岵岶岷岸岹岺岻岼岽岾岿峀峁峂峃峄峅峆峇峈峉峊峋峌峍峎峏峐峑峒峓峔峕",
            "峖峗峘峙峚峛峜峝峞峟峠峡峢峣峤峥峦峧峨峩峪峫峬峭峮峯峰峱峲峳峴峵島峷峸峹峺峻峼峽峾峿嶀嶁嶂嶃嶄嶅嶆嶇嶈嶉嶊嶋嶌嶍嶎嶏嶐嶑",
            "嶒嶓嶔嶕嶖嶗嶘嶙嶚嶛嶜嶝嶞嶟嶠嶡嶢嶣嶤嶥嶦嶧嶨嶩嶪嶫嶬嶭嶮嶯嶰嶱嶲嶳嶴嶵嶶嶷嶸嶹嶺嶻嶼嶽嶾嶿巀巁巂巃巄巅巆巇巈巉巊巋巌巍",
            "巎巏巐巑巒巓巔巕巖巗巘巙巚巛巜川州巟巠巡巢巣巤工左巧巨巩巪巫巬巭差巯巰己已巳巴巵巶巷巸巹巺巻巼巽巾巿庀庁庂広庄庅庆庇庈庉",
            "床庋庌庍庎序庐庑庒库应底庖店庘庙庚庛府庝庞废庠庡庢庣庤庥度座庨庩庪庫庬庭庮庯庰庱庲庳庴庵庶康庸庹庺庻庼庽庾庿廀廁廂廃廄廅",
            "廆廇廈廉廊廋廌廍廎廏廐廑廒廓廔廕廖廗廘廙廚廛廜廝廞廟廠廡廢廣廤廥廦廧廨廩廪廫廬廭廮廯廰廱廲廳廴廵延廷廸廹建廻廼廽廾廿往征",
            "徂徃径待徆徇很徉徊律後徍徎徏徐徑徒従徔徕徖得徘徙徚徛徜徝從徟徠御徢徣徤徥徦徧徨復循徫徬徭微徯徰徱徲徳徴徵徶德徸徹徺徻徼徽",
            "徾徿忀忁忂心忄必忆忇忈忉忊忋忌忍忎忏忐忑忒忓忔忕忖志忘忙忚忛応忝忞忟忠忡忢忣忤忥忦忧忨忩忪快忬忭忮忯忰忱忲忳忴念忶忷忸忹",
            "忺忻忼忽忾忿悀悁悂悃悄悅悆悇悈悉悊悋悌悍悎悏悐悑悒悓悔悕悖悗悘悙悚悛悜悝悞悟悠悡悢患悤悥悦悧您悩悪悫悬悭悮悯悰悱悲悳悴悵",
            "悶悷悸悹悺悻悼悽悾悿惀惁惂惃惄情惆惇惈惉惊惋惌惍惎惏惐惑惒惓惔惕惖惗惘惙惚惛惜惝惞惟惠惡惢惣惤惥惦惧惨惩惪惫惬惭惮惯惰惱",
            "惲想惴惵惶惷惸惹惺惻惼惽惾惿憀憁憂憃憄憅憆憇憈憉憊憋憌憍憎憏憐憑憒憓憔憕憖憗憘憙憚憛憜憝憞憟憠憡憢憣憤憥憦憧憨憩憪憫憬憭",
            "憮憯憰憱憲憳憴憵憶憷憸憹憺憻憼憽憾憿懀懁懂懃懄懅懆懇懈應懊懋懌懍懎懏懐懑懒懓懔懕懖懗懘懙懚懛懜懝懞懟懠懡懢懣懤懥懦懧懨懩",
            "懪懫懬懭懮懯懰懱懲懳懴懵懶懷懸懹懺懻懼懽懾懿技抁抂抃抄抅抆抇抈抉把抋抌抍抎抏抐抑抒抓抔投抖抗折抙抚抛抜抝択抟抠抡抢抣护报",
            "抦抧抨抩抪披抬抭抮抯抰抱抲抳抴抵抶抷抸抹抺抻押抽抾抿拀拁拂拃拄担拆拇拈拉拊拋拌拍拎拏拐拑拒拓拔拕拖拗拘拙拚招拜拝拞拟拠拡",
            "拢拣拤拥拦拧拨择拪拫括拭拮拯拰拱拲拳拴拵拶拷拸拹拺拻拼拽拾拿掀掁掂掃掄掅掆掇授掉掊掋掌掍掎掏掐掑排掓掔掕掖掗掘掙掚掛掜掝",
            "掞掟掠採探掣掤接掦控推掩措掫掬掭掮掯掰掱掲掳掴掵掶掷掸掹掺掻掼掽掾掿揀揁揂揃揄揅揆揇揈揉揊揋揌揍揎描提揑插揓揔揕揖揗揘揙",
            "揚換揜揝揞揟揠握揢揣揤揥揦揧揨揩揪揫揬揭揮揯揰揱揲揳援揵揶揷揸揹揺揻揼揽揾揿撀撁撂撃撄撅撆撇撈撉撊撋撌撍撎撏撐撑撒撓撔撕",
            "撖撗撘撙撚撛撜撝撞撟撠撡撢撣撤撥撦撧撨撩撪撫撬播撮撯撰撱撲撳撴撵撶撷撸撹撺撻撼撽撾撿擀擁擂擃擄擅擆擇擈擉擊擋擌操擎擏擐擑",
            "擒擓擔擕擖擗擘擙據擛擜擝擞擟擠擡擢擣擤擥擦擧擨擩擪擫擬擭擮擯擰擱擲擳擴擵擶擷擸擹擺擻擼擽擾擿斀斁斂斃斄斅斆文斈斉斊斋斌斍",
            "斎斏斐斑斒斓斔斕斖斗斘料斚斛斜斝斞斟斠斡斢斣斤斥斦斧斨斩斪斫斬断斮斯新斱斲斳斴斵斶斷斸方斺斻於施斾斿旀旁旂旃旄旅旆旇旈旉",
            "旊旋旌旍旎族旐旑旒旓旔旕旖旗旘旙旚旛旜旝旞旟无旡既旣旤日旦旧旨早旪旫旬旭旮旯旰旱旲旳旴旵时旷旸旹旺旻旼旽旾旿暀暁暂暃暄暅",
            "暆暇暈暉暊暋暌暍暎暏暐暑暒暓暔暕暖暗暘暙暚暛暜暝暞暟暠暡暢暣暤暥暦暧暨暩暪暫暬暭暮暯暰暱暲暳暴暵暶暷暸暹暺暻暼暽暾暿曀曁",
            "曂曃曄曅曆曇曈曉曊曋曌曍曎曏曐曑曒曓曔曕曖曗曘曙曚曛曜曝曞曟曠曡曢曣曤曥曦曧曨曩曪曫曬曭曮曯曰曱曲曳更曵曶曷書曹曺曻曼曽",
            "曾替枀极枂枃构枅枆枇枈枉枊枋枌枍枎枏析枑枒枓枔枕枖林枘枙枚枛果枝枞枟枠枡枢枣枤枥枦枧枨枩枪枫枬枭枮枯枰枱枲枳枴枵架枷枸枹",
            "枺枻枼枽枾枿柀柁柂柃柄柅柆柇柈柉柊柋柌柍柎柏某柑柒染柔柕柖柗柘柙柚柛柜柝柞柟柠柡柢柣柤查柦柧柨柩柪柫柬柭柮柯柰柱柲柳柴柵",
            "柶柷柸柹柺査柼柽柾柿梀梁梂梃梄梅梆梇梈梉梊梋梌梍梎梏梐梑梒梓梔梕梖梗梘梙梚梛梜條梞梟梠梡梢梣梤梥梦梧梨梩梪梫梬梭梮梯械梱",
            "梲梳梴梵梶梷梸梹梺梻梼梽梾梿检棁棂棃棄棅棆棇棈棉棊棋棌棍棎棏棐棑棒棓棔棕棖棗棘棙棚棛棜棝棞棟棠棡棢棣棤棥棦棧棨棩棪棫棬棭",
            "森棯棰棱棲棳棴棵棶棷棸棹棺棻棼棽棾棿榀榁概榃榄榅榆榇榈榉榊榋榌榍榎榏榐榑榒榓榔榕榖榗榘榙榚榛榜榝榞榟榠榡榢榣榤榥榦榧榨榩",
            "榪榫榬榭榮榯榰榱榲榳榴榵榶榷榸榹榺榻榼榽榾榿槀槁槂槃槄槅槆槇槈槉槊構槌槍槎槏槐槑槒槓槔槕槖槗様槙槚槛槜槝槞槟槠槡槢槣槤槥",
            "槦槧槨槩槪槫槬槭槮槯槰槱槲槳槴槵槶槷槸槹槺槻槼槽槾槿檀檁檂檃檄檅檆檇檈檉檊檋檌檍檎檏檐檑檒檓檔檕檖檗檘檙檚檛檜檝檞檟檠檡",
            "檢檣檤檥檦檧檨檩檪檫檬檭檮檯檰檱檲檳檴檵檶檷檸檹檺檻檼檽檾檿櫀櫁櫂櫃櫄櫅櫆櫇櫈櫉櫊櫋櫌櫍櫎櫏櫐櫑櫒櫓櫔櫕櫖櫗櫘櫙櫚櫛櫜櫝",
            "櫞櫟櫠櫡櫢櫣櫤櫥櫦櫧櫨櫩櫪櫫櫬櫭櫮櫯櫰櫱櫲櫳櫴櫵櫶櫷櫸櫹櫺櫻櫼櫽櫾櫿殀殁殂殃殄殅殆殇殈殉殊残殌殍殎殏殐殑殒殓殔殕殖殗殘殙",
            "殚殛殜殝殞殟殠殡殢殣殤殥殦殧殨殩殪殫殬殭殮殯殰殱殲殳殴段殶殷殸殹殺殻殼殽殾殿毀毁毂毃毄毅毆毇毈毉毊毋毌母毎每毐毑毒毓比毕",
            "毖毗毘毙毚毛毜毝毞毟毠毡毢毣毤毥毦毧毨毩毪毫毬毭毮毯毰毱毲毳毴毵毶毷毸毹毺毻毼毽毾毿沀沁沂沃沄沅沆沇沈沉沊沋沌沍沎沏沐沑",
            "沒沓沔沕沖沗沘沙沚沛沜沝沞沟沠没沢沣沤沥沦沧沨沩沪沫沬沭沮沯沰沱沲河沴沵沶沷沸油沺治沼沽沾沿泀況泂泃泄泅泆泇泈泉泊泋泌泍",
            "泎泏泐泑泒泓泔法泖泗泘泙泚泛泜泝泞泟泠泡波泣泤泥泦泧注泩泪泫泬泭泮泯泰泱泲泳泴泵泶泷泸泹泺泻泼泽泾泿涀涁涂涃涄涅涆涇消涉",
            "涊涋涌涍涎涏涐涑涒涓涔涕涖涗涘涙涚涛涜涝涞涟涠涡涢涣涤涥润涧涨涩涪涫涬涭涮涯涰涱液涳涴涵涶涷涸涹涺涻涼涽涾涿淀淁淂淃淄淅",
            "淆淇淈淉淊淋淌淍淎淏淐淑淒淓淔淕淖淗淘淙淚淛淜淝淞淟淠淡淢淣淤淥淦淧淨淩淪淫淬淭淮淯淰深淲淳淴淵淶混淸淹淺添淼淽淾淿満溁",
            "溂溃溄溅溆溇溈溉溊溋溌溍溎溏源溑溒溓溔溕準溗溘溙溚溛溜溝溞溟溠溡溢溣溤溥溦溧溨溩溪溫溬溭溮溯溰溱溲溳溴溵溶溷溸溹溺溻溼溽",
            "溾溿滀滁滂滃滄滅滆滇滈滉滊滋滌滍滎滏滐滑滒滓滔滕滖滗滘滙滚滛滜滝滞滟滠满滢滣滤滥滦滧滨滩滪滫滬滭滮滯滰滱滲滳滴滵滶滷滸滹",
            "滺滻滼滽滾滿澀澁澂澃澄澅澆澇澈澉澊澋澌澍澎澏澐澑澒澓澔澕澖澗澘澙澚澛澜澝澞澟澠澡澢澣澤澥澦澧澨澩澪澫澬澭澮澯澰澱澲澳澴澵",
            "澶澷澸澹澺澻澼澽澾澿激濁濂濃濄濅濆濇濈濉濊濋濌濍濎濏濐濑濒濓濔濕濖濗濘濙濚濛濜濝濞濟濠濡濢濣濤濥濦濧濨濩濪濫濬濭濮濯濰濱",
            "濲濳濴濵濶濷濸濹濺濻濼濽濾濿炀炁炂炃炄炅炆炇炈炉炊炋炌炍炎炏炐炑炒炓炔炕炖炗炘炙炚炛炜炝炞炟炠炡炢炣炤炥炦炧炨炩炪炫炬炭",
            "炮炯炰炱炲炳炴炵炶炷炸点為炻炼炽炾炿烀烁烂烃烄烅烆烇烈烉烊烋烌烍烎烏烐烑烒烓烔烕烖烗烘烙烚烛烜烝烞烟烠烡烢烣烤烥烦烧烨烩",
            "烪烫烬热烮烯烰烱烲烳烴烵烶烷烸烹烺烻烼烽烾烿熀熁熂熃熄熅熆熇熈熉熊熋熌熍熎熏熐熑熒熓熔熕熖熗熘熙熚熛熜熝熞熟熠熡熢熣熤熥",
            "熦熧熨熩熪熫熬熭熮熯熰熱熲熳熴熵熶熷熸熹熺熻熼熽熾熿燀燁燂燃燄燅燆燇燈燉燊燋燌燍燎燏燐燑燒燓燔燕燖燗燘燙燚燛燜燝燞營燠燡",
            "燢燣燤燥燦燧燨燩燪燫燬燭燮燯燰燱燲燳燴燵燶燷燸燹燺燻燼燽燾燿犀犁犂犃犄犅犆犇犈犉犊犋犌犍犎犏犐犑犒犓犔犕犖犗犘犙犚犛犜犝",
            "犞犟犠犡犢犣犤犥犦犧犨犩犪犫犬犭犮犯犰犱犲犳犴犵状犷犸犹犺犻犼犽犾犿狀狁狂狃狄狅狆狇狈狉狊狋狌狍狎狏狐狑狒狓狔狕狖狗狘狙",
            "狚狛狜狝狞狟狠狡狢狣狤狥狦狧狨狩狪狫独狭狮狯狰狱狲狳狴狵狶狷狸狹狺狻狼狽狾狿玀玁玂玃玄玅玆率玈玉玊王玌玍玎玏玐玑玒玓玔玕",
            "玖玗玘玙玚玛玜玝玞玟玠玡玢玣玤玥玦玧玨玩玪玫玬玭玮环现玱玲玳玴玵玶玷玸玹玺玻玼玽玾玿珀珁珂珃珄珅珆珇珈珉珊珋珌珍珎珏珐珑",
            "珒珓珔珕珖珗珘珙珚珛珜珝珞珟珠珡珢珣珤珥珦珧珨珩珪珫珬班珮珯珰珱珲珳珴珵珶珷珸珹珺珻珼珽現珿璀璁璂璃璄璅璆璇璈璉璊璋璌璍",
            "璎璏璐璑璒璓璔璕璖璗璘璙璚璛璜璝璞璟璠璡璢璣璤璥璦璧璨璩璪璫璬璭璮璯環璱璲璳璴璵璶璷璸璹璺璻璼璽璾璿瓀瓁瓂瓃瓄瓅瓆瓇瓈瓉",
            "瓊瓋瓌瓍瓎瓏瓐瓑瓒瓓瓔瓕瓖瓗瓘瓙瓚瓛瓜瓝瓞瓟瓠瓡瓢瓣瓤瓥瓦瓧瓨瓩瓪瓫瓬瓭瓮瓯瓰瓱瓲瓳瓴瓵瓶瓷瓸瓹瓺瓻瓼瓽瓾瓿疀疁疂疃疄疅",
            "疆疇疈疉疊疋疌疍疎疏疐疑疒疓疔疕疖疗疘疙疚疛疜疝疞疟疠疡疢疣疤疥疦疧疨疩疪疫疬疭疮疯疰疱疲疳疴疵疶疷疸疹疺疻疼疽疾疿痀痁",
            "痂痃痄病痆症痈痉痊痋痌痍痎痏痐痑痒痓痔痕痖痗痘痙痚痛痜痝痞痟痠痡痢痣痤痥痦痧痨痩痪痫痬痭痮痯痰痱痲痳痴痵痶痷痸痹痺痻痼痽",
            "痾痿皀皁皂皃的皅皆皇皈皉皊皋皌皍皎皏皐皑皒皓皔皕皖皗皘皙皚皛皜皝皞皟皠皡皢皣皤皥皦皧皨皩皪皫皬皭皮皯皰皱皲皳皴皵皶皷皸皹",
            "皺皻皼皽皾皿盀盁盂盃盄盅盆盇盈盉益盋盌盍盎盏盐监盒盓盔盕盖盗盘盙盚盛盜盝盞盟盠盡盢監盤盥盦盧盨盩盪盫盬盭目盯盰盱盲盳直盵",
            "盶盷相盹盺盻盼盽盾盿瞀瞁瞂瞃瞄瞅瞆瞇瞈瞉瞊瞋瞌瞍瞎瞏瞐瞑瞒瞓瞔瞕瞖瞗瞘瞙瞚瞛瞜瞝瞞瞟瞠瞡瞢瞣瞤瞥瞦瞧瞨瞩瞪瞫瞬瞭瞮瞯瞰瞱",
            "瞲瞳瞴瞵瞶瞷瞸瞹瞺瞻瞼瞽瞾瞿矀矁矂矃矄矅矆矇矈矉矊矋矌矍矎矏矐矑矒矓矔矕矖矗矘矙矚矛矜矝矞矟矠矡矢矣矤知矦矧矨矩矪矫矬短",
            "矮矯矰矱矲石矴矵矶矷矸矹矺矻矼矽矾矿碀碁碂碃碄碅碆碇碈碉碊碋碌碍碎碏碐碑碒碓碔碕碖碗碘碙碚碛碜碝碞碟碠碡碢碣碤碥碦碧碨碩",
            "碪碫碬碭碮碯碰碱碲碳碴碵碶碷碸碹確碻碼碽碾碿磀磁磂磃磄磅磆磇磈磉磊磋磌磍磎磏磐磑磒磓磔磕磖磗磘磙磚磛磜磝磞磟磠磡磢磣磤磥",
            "磦磧磨磩磪磫磬磭磮磯磰磱磲磳磴磵磶磷磸磹磺磻磼磽磾磿禀禁禂禃禄禅禆禇禈禉禊禋禌禍禎福禐禑禒禓禔禕禖禗禘禙禚禛禜禝禞禟禠禡",
            "禢禣禤禥禦禧禨禩禪禫禬禭禮禯禰禱禲禳禴禵禶禷禸禹禺离禼禽禾禿秀私秂秃秄秅秆秇秈秉秊秋秌种秎秏秐科秒秓秔秕秖秗秘秙秚秛秜秝",
            "秞租秠秡秢秣秤秥秦秧秨秩秪秫秬秭秮积称秱秲秳秴秵秶秷秸秹秺移秼秽秾秿窀突窂窃窄窅窆窇窈窉窊窋窌窍窎窏窐窑窒窓窔窕窖窗窘窙",
            "窚窛窜窝窞窟窠窡窢窣窤窥窦窧窨窩窪窫窬窭窮窯窰窱窲窳窴窵窶窷窸窹窺窻窼窽窾窿竀竁竂竃竄竅竆竇竈竉竊立竌竍竎竏竐竑竒竓竔竕",
            "竖竗竘站竚竛竜竝竞竟章竡竢竣竤童竦竧竨竩竪竫竬竭竮端竰竱竲竳竴竵競竷竸竹竺竻竼竽竾竿简箁箂箃箄箅箆箇箈箉箊箋箌箍箎箏箐箑",
            "箒箓箔箕箖算箘箙箚箛箜箝箞箟箠管箢箣箤箥箦箧箨箩箪箫箬箭箮箯箰箱箲箳箴箵箶箷箸箹箺箻箼箽箾箿節篁篂篃範篅篆篇篈築篊篋篌篍",
            "篎篏篐篑篒篓篔篕篖篗篘篙篚篛篜篝篞篟篠篡篢篣篤篥篦篧篨篩篪篫篬篭篮篯篰篱篲篳篴篵篶篷篸篹篺篻篼篽篾篿粀粁粂粃粄粅粆粇粈粉",
            "粊粋粌粍粎粏粐粑粒粓粔粕粖粗粘粙粚粛粜粝粞粟粠粡粢粣粤粥粦粧粨粩粪粫粬粭粮粯粰粱粲粳粴粵粶粷粸粹粺粻粼粽精粿糀糁糂糃糄糅",
            "糆糇糈糉糊糋糌糍糎糏糐糑糒糓糔糕糖糗糘糙糚糛糜糝糞糟糠糡糢糣糤糥糦糧糨糩糪糫糬糭糮糯糰糱糲糳糴糵糶糷糸糹糺系糼糽糾糿綀綁",
            "綂綃綄綅綆綇綈綉綊綋綌綍綎綏綐綑綒經綔綕綖綗綘継続綛綜綝綞綟綠綡綢綣綤綥綦綧綨綩綪綫綬維綮綯綰綱網綳綴綵綶綷綸綹綺綻綼綽",
            "綾綿緀緁緂緃緄緅緆緇緈緉緊緋緌緍緎総緐緑緒緓緔緕緖緗緘緙線緛緜緝緞緟締緡緢緣緤緥緦緧編緩緪緫緬緭緮緯緰緱緲緳練緵緶緷緸緹",
            "緺緻緼緽緾緿纀纁纂纃纄纅纆纇纈纉纊纋續纍纎纏纐纑纒纓纔纕纖纗纘纙纚纛纜纝纞纟纠纡红纣纤纥约级纨纩纪纫纬纭纮纯纰纱纲纳纴纵",
            "纶纷纸纹纺纻纼纽纾线绀绁绂练组绅细织终绉绊绋绌绍绎经绐绑绒结绔绕绖绗绘给绚绛络绝绞统绠绡绢绣绤绥绦继绨绩绪绫绬续绮绯绰绱",
            "绲绳维绵绶绷绸绹绺绻综绽绾绿羀羁羂羃羄羅羆羇羈羉羊羋羌羍美羏羐羑羒羓羔羕羖羗羘羙羚羛羜羝羞羟羠羡羢羣群羥羦羧羨義羪羫羬羭",
            "羮羯羰羱羲羳羴羵羶羷羸羹羺羻羼羽羾羿翀翁翂翃翄翅翆翇翈翉翊翋翌翍翎翏翐翑習翓翔翕翖翗翘翙翚翛翜翝翞翟翠翡翢翣翤翥翦翧翨翩",
            "翪翫翬翭翮翯翰翱翲翳翴翵翶翷翸翹翺翻翼翽翾翿肀肁肂肃肄肅肆肇肈肉肊肋肌肍肎肏肐肑肒肓肔肕肖肗肘肙肚肛肜肝肞肟肠股肢肣肤肥",
            "肦肧肨肩肪肫肬肭肮肯肰肱育肳肴肵肶肷肸肹肺肻肼肽肾肿胀胁胂胃胄胅胆胇胈胉胊胋背胍胎胏胐胑胒胓胔胕胖胗胘胙胚胛胜胝胞胟胠胡",
            "胢胣胤胥胦胧胨胩胪胫胬胭胮胯胰胱胲胳胴胵胶胷胸胹胺胻胼能胾胿膀膁膂膃膄膅膆膇膈膉膊膋膌膍膎膏膐膑膒膓膔膕膖膗膘膙膚膛膜膝",
            "膞膟膠膡膢膣膤膥膦膧膨膩膪膫膬膭膮膯膰膱膲膳膴膵膶膷膸膹膺膻膼膽膾膿臀臁臂臃臄臅臆臇臈臉臊臋臌臍臎臏臐臑臒臓臔臕臖臗臘臙",
            "臚臛臜臝臞臟臠臡臢臣臤臥臦臧臨臩自臫臬臭臮臯臰臱臲至致臵臶臷臸臹臺臻臼臽臾臿芀芁节芃芄芅芆芇芈芉芊芋芌芍芎芏芐芑芒芓芔芕",
            "芖芗芘芙芚芛芜芝芞芟芠芡芢芣芤芥芦芧芨芩芪芫芬芭芮芯芰花芲芳芴芵芶芷芸芹芺芻芼芽芾芿苀苁苂苃苄苅苆苇苈苉苊苋苌苍苎苏苐苑",
            "苒苓苔苕苖苗苘苙苚苛苜苝苞苟苠苡苢苣苤若苦苧苨苩苪苫苬苭苮苯苰英苲苳苴苵苶苷苸苹苺苻苼苽苾苿莀莁莂莃莄莅莆莇莈莉莊莋莌莍",
            "莎莏莐莑莒莓莔莕莖莗莘莙莚莛莜莝莞莟莠莡莢莣莤莥莦莧莨莩莪莫莬莭莮莯莰莱莲莳莴莵莶获莸莹莺莻莼莽莾莿菀菁菂菃菄菅菆菇菈菉",
            "菊菋菌菍菎菏菐菑菒菓菔菕菖菗菘菙菚菛菜菝菞菟菠菡菢菣菤菥菦菧菨菩菪菫菬菭菮華菰菱菲菳菴菵菶菷菸菹菺菻菼菽菾菿蒀蒁蒂蒃蒄蒅",
            "蒆蒇蒈蒉蒊蒋蒌蒍蒎蒏蒐蒑蒒蒓蒔蒕蒖蒗蒘蒙蒚蒛蒜蒝蒞蒟蒠蒡蒢蒣蒤蒥蒦蒧蒨蒩蒪蒫蒬蒭蒮蒯蒰蒱蒲蒳蒴蒵蒶蒷蒸蒹蒺蒻蒼蒽蒾蒿蓀蓁",
            "蓂蓃蓄蓅蓆蓇蓈蓉蓊蓋蓌蓍蓎蓏蓐蓑蓒蓓蓔蓕蓖蓗蓘蓙蓚蓛蓜蓝蓞蓟蓠蓡蓢蓣蓤蓥蓦蓧蓨蓩蓪蓫蓬蓭蓮蓯蓰蓱蓲蓳蓴蓵蓶蓷蓸蓹蓺蓻蓼蓽",
            "蓾蓿薀薁薂薃薄薅薆薇薈薉薊薋薌薍薎薏薐薑薒薓薔薕薖薗薘薙薚薛薜薝薞薟薠薡薢薣薤薥薦薧薨薩薪薫薬薭薮薯薰薱薲薳薴薵薶薷薸薹",
            "薺薻薼薽薾薿藀藁藂藃藄藅藆藇藈藉藊藋藌藍藎藏藐藑藒藓藔藕藖藗藘藙藚藛藜藝藞藟藠藡藢藣藤藥藦藧藨藩藪藫藬藭藮藯藰藱藲藳藴藵",
            "藶藷藸藹藺藻藼藽藾藿蚀蚁蚂蚃蚄蚅蚆蚇蚈蚉蚊蚋蚌蚍蚎蚏蚐蚑蚒蚓蚔蚕蚖蚗蚘蚙蚚蚛蚜蚝蚞蚟蚠蚡蚢蚣蚤蚥蚦蚧蚨蚩蚪蚫蚬蚭蚮蚯蚰蚱",
            "蚲蚳蚴蚵蚶蚷蚸蚹蚺蚻蚼蚽蚾蚿蛀蛁蛂蛃蛄蛅蛆蛇蛈蛉蛊蛋蛌蛍蛎蛏蛐蛑蛒蛓蛔蛕蛖蛗蛘蛙蛚蛛蛜蛝蛞蛟蛠蛡蛢蛣蛤蛥蛦蛧蛨蛩蛪蛫蛬蛭",
            "蛮蛯蛰蛱蛲蛳蛴蛵蛶蛷蛸蛹蛺蛻蛼蛽蛾蛿螀螁螂螃螄螅螆螇螈螉螊螋螌融螎螏螐螑螒螓螔螕螖螗螘螙螚螛螜螝螞螟螠螡螢螣螤螥螦螧螨螩",
            "螪螫螬螭螮螯螰螱螲螳螴螵螶螷螸螹螺螻螼螽螾螿蟀蟁蟂蟃蟄蟅蟆蟇蟈蟉蟊蟋蟌蟍蟎蟏蟐蟑蟒蟓蟔蟕蟖蟗蟘蟙蟚蟛蟜蟝蟞蟟蟠蟡蟢蟣蟤蟥",
            "蟦蟧蟨蟩蟪蟫蟬蟭蟮蟯蟰蟱蟲蟳蟴蟵蟶蟷蟸蟹蟺蟻蟼蟽蟾蟿袀袁袂袃袄袅袆袇袈袉袊袋袌袍袎袏袐袑袒袓袔袕袖袗袘袙袚袛袜袝袞袟袠袡",
            "袢袣袤袥袦袧袨袩袪被袬袭袮袯袰袱袲袳袴袵袶袷袸袹袺袻袼袽袾袿裀裁裂裃裄装裆裇裈裉裊裋裌裍裎裏裐裑裒裓裔裕裖裗裘裙裚裛補裝",
            "裞裟裠裡裢裣裤裥裦裧裨裩裪裫裬裭裮裯裰裱裲裳裴裵裶裷裸裹裺裻裼製裾裿覀要覂覃覄覅覆覇覈覉覊見覌覍覎規覐覑覒覓覔覕視覗覘覙",
            "覚覛覜覝覞覟覠覡覢覣覤覥覦覧覨覩親覫覬覭覮覯覰覱覲観覴覵覶覷覸覹覺覻覼覽覾覿觀见观觃规觅视觇览觉觊觋觌觍觎觏觐觑角觓觔觕",
            "觖觗觘觙觚觛觜觝觞觟觠觡觢解觤觥触觧觨觩觪觫觬觭觮觯觰觱觲觳觴觵觶觷觸觹觺觻觼觽觾觿誀誁誂誃誄誅誆誇誈誉誊誋誌認誎誏誐誑",
            "誒誓誔誕誖誗誘誙誚誛誜誝語誟誠誡誢誣誤誥誦誧誨誩說誫説読誮誯誰誱課誳誴誵誶誷誸誹誺誻誼誽誾調諀諁諂諃諄諅諆談諈諉諊請諌諍",
            "諎諏諐諑諒諓諔諕論諗諘諙諚諛諜諝諞諟諠諡諢諣諤諥諦諧諨諩諪諫諬諭諮諯諰諱諲諳諴諵諶諷諸諹諺諻諼諽諾諿讀讁讂讃讄讅讆讇讈讉",
            "變讋讌讍讎讏讐讑讒讓讔讕讖讗讘讙讚讛讜讝讞讟讠计订讣认讥讦讧讨让讪讫讬训议讯记讱讲讳讴讵讶讷许讹论讻讼讽设访诀证诂诃评诅",
            "识诇诈诉诊诋诌词诎诏诐译诒诓诔试诖诗诘诙诚诛诜话诞诟诠诡询诣诤该详诧诨诩诪诫诬语诮误诰诱诲诳说诵诶请诸诹诺读诼诽课诿貀貁",
            "貂貃貄貅貆貇貈貉貊貋貌貍貎貏貐貑貒貓貔貕貖貗貘貙貚貛貜貝貞貟負財貢貣貤貥貦貧貨販貪貫責貭貮貯貰貱貲貳貴貵貶買貸貹貺費貼貽",
            "貾貿賀賁賂賃賄賅賆資賈賉賊賋賌賍賎賏賐賑賒賓賔賕賖賗賘賙賚賛賜賝賞賟賠賡賢賣賤賥賦賧賨賩質賫賬賭賮賯賰賱賲賳賴賵賶賷賸賹",
            "賺賻購賽賾賿趀趁趂趃趄超趆趇趈趉越趋趌趍趎趏趐趑趒趓趔趕趖趗趘趙趚趛趜趝趞趟趠趡趢趣趤趥趦趧趨趩趪趫趬趭趮趯趰趱趲足趴趵",
            "趶趷趸趹趺趻趼趽趾趿跀跁跂跃跄跅跆跇跈跉跊跋跌跍跎跏跐跑跒跓跔跕跖跗跘跙跚跛跜距跞跟跠跡跢跣跤跥跦跧跨跩跪跫跬跭跮路跰跱",
            "跲跳跴践跶跷跸跹跺跻跼跽跾跿躀躁躂躃躄躅躆躇躈躉躊躋躌躍躎躏躐躑躒躓躔躕躖躗躘躙躚躛躜躝躞躟躠躡躢躣躤躥躦躧躨躩躪身躬躭",
            "躮躯躰躱躲躳躴躵躶躷躸躹躺躻躼躽躾躿軀軁軂軃軄軅軆軇軈軉車軋軌軍軎軏軐軑軒軓軔軕軖軗軘軙軚軛軜軝軞軟軠軡転軣軤軥軦軧軨軩",
            "軪軫軬軭軮軯軰軱軲軳軴軵軶軷軸軹軺軻軼軽軾軿辀辁辂较辄辅辆辇辈辉辊辋辌辍辎辏辐辑辒输辔辕辖辗辘辙辚辛辜辝辞辟辠辡辢辣辤辥",
            "辦辧辨辩辪辫辬辭辮辯辰辱農辳辴辵辶辷辸边辺辻込辽达辿迀迁迂迃迄迅迆过迈迉迊迋迌迍迎迏运近迒迓返迕迖迗还这迚进远违连迟迠迡",
            "迢迣迤迥迦迧迨迩迪迫迬迭迮迯述迱迲迳迴迵迶迷迸迹迺迻迼追迾迿邀邁邂邃還邅邆邇邈邉邊邋邌邍邎邏邐邑邒邓邔邕邖邗邘邙邚邛邜邝",
            "邞邟邠邡邢那邤邥邦邧邨邩邪邫邬邭邮邯邰邱邲邳邴邵邶邷邸邹邺邻邼邽邾邿郀郁郂郃郄郅郆郇郈郉郊郋郌郍郎郏郐郑郒郓郔郕郖郗郘郙",
            "郚郛郜郝郞郟郠郡郢郣郤郥郦郧部郩郪郫郬郭郮郯郰郱郲郳郴郵郶郷郸郹郺郻郼都郾郿醀醁醂醃醄醅醆醇醈醉醊醋醌醍醎醏醐醑醒醓醔醕",
            "醖醗醘醙醚醛醜醝醞醟醠醡醢醣醤醥醦醧醨醩醪醫醬醭醮醯醰醱醲醳醴醵醶醷醸醹醺醻醼醽醾醿釀釁釂釃釄釅釆采釈釉释釋里重野量釐金",
            "釒釓釔釕釖釗釘釙釚釛釜針釞釟釠釡釢釣釤釥釦釧釨釩釪釫釬釭釮釯釰釱釲釳釴釵釶釷釸釹釺釻釼釽釾釿銀銁銂銃銄銅銆銇銈銉銊銋銌銍",
            "銎銏銐銑銒銓銔銕銖銗銘銙銚銛銜銝銞銟銠銡銢銣銤銥銦銧銨銩銪銫銬銭銮銯銰銱銲銳銴銵銶銷銸銹銺銻銼銽銾銿鋀鋁鋂鋃鋄鋅鋆鋇鋈鋉",
            "鋊鋋鋌鋍鋎鋏鋐鋑鋒鋓鋔鋕鋖鋗鋘鋙鋚鋛鋜鋝鋞鋟鋠鋡鋢鋣鋤鋥鋦鋧鋨鋩鋪鋫鋬鋭鋮鋯鋰鋱鋲鋳鋴鋵鋶鋷鋸鋹鋺鋻鋼鋽鋾鋿鎀鎁鎂鎃鎄鎅",
            "鎆鎇鎈鎉鎊鎋鎌鎍鎎鎏鎐鎑鎒鎓鎔鎕鎖鎗鎘鎙鎚鎛鎜鎝鎞鎟鎠鎡鎢鎣鎤鎥鎦鎧鎨鎩鎪鎫鎬鎭鎮鎯鎰鎱鎲鎳鎴鎵鎶鎷鎸鎹鎺鎻鎼鎽鎾鎿鏀鏁",
            "鏂鏃鏄鏅鏆鏇鏈鏉鏊鏋鏌鏍鏎鏏鏐鏑鏒鏓鏔鏕鏖鏗鏘鏙鏚鏛鏜鏝鏞鏟鏠鏡鏢鏣鏤鏥鏦鏧鏨鏩鏪鏫鏬鏭鏮鏯鏰鏱鏲鏳鏴鏵鏶鏷鏸鏹鏺鏻鏼鏽",
            "鏾鏿钀钁钂钃钄钅钆钇针钉钊钋钌钍钎钏钐钑钒钓钔钕钖钗钘钙钚钛钜钝钞钟钠钡钢钣钤钥钦钧钨钩钪钫钬钭钮钯钰钱钲钳钴钵钶钷钸钹",
            "钺钻钼钽钾钿铀铁铂铃铄铅铆铇铈铉铊铋铌铍铎铏铐铑铒铓铔铕铖铗铘铙铚铛铜铝铞铟铠铡铢铣铤铥铦铧铨铩铪铫铬铭铮铯铰铱铲铳铴铵",
            "银铷铸铹铺铻铼铽链铿門閁閂閃閄閅閆閇閈閉閊開閌閍閎閏閐閑閒間閔閕閖閗閘閙閚閛閜閝閞閟閠閡関閣閤閥閦閧閨閩閪閫閬閭閮閯閰閱",
            "閲閳閴閵閶閷閸閹閺閻閼閽閾閿闀闁闂闃闄闅闆闇闈闉闊闋闌闍闎闏闐闑闒闓闔闕闖闗闘闙闚闛關闝闞闟闠闡闢闣闤闥闦闧门闩闪闫闬闭",
            "问闯闰闱闲闳间闵闶闷闸闹闺闻闼闽闾闿隀隁隂隃隄隅隆隇隈隉隊隋隌隍階随隐隑隒隓隔隕隖隗隘隙隚際障隝隞隟隠隡隢隣隤隥隦隧隨隩",
            "險隫隬隭隮隯隰隱隲隳隴隵隶隷隸隹隺隻隼隽难隿雀雁雂雃雄雅集雇雈雉雊雋雌雍雎雏雐雑雒雓雔雕雖雗雘雙雚雛雜雝雞雟雠雡離難雤雥",
            "雦雧雨雩雪雫雬雭雮雯雰雱雲雳雴雵零雷雸雹雺電雼雽雾雿鞀鞁鞂鞃鞄鞅鞆鞇鞈鞉鞊鞋鞌鞍鞎鞏鞐鞑鞒鞓鞔鞕鞖鞗鞘鞙鞚鞛鞜鞝鞞鞟鞠鞡",
            "鞢鞣鞤鞥鞦鞧鞨鞩鞪鞫鞬鞭鞮鞯鞰鞱鞲鞳鞴鞵鞶鞷鞸鞹鞺鞻鞼鞽鞾鞿韀韁韂韃韄韅韆韇韈韉韊韋韌韍韎韏韐韑韒韓韔韕韖韗韘韙韚韛韜韝",
            "韞韟韠韡韢韣韤韥韦韧韨韩韪韫韬韭韮韯韰韱韲音韴韵韶韷韸韹韺韻韼韽韾響颀颁颂颃预颅领颇颈颉颊颋颌颍颎颏颐频颒颓颔颕颖颗题颙",
            "颚颛颜额颞颟颠颡颢颣颤颥颦颧風颩颪颫颬颭颮颯颰颱颲颳颴颵颶颷颸颹颺颻颼颽颾颿飀飁飂飃飄飅飆飇飈飉飊飋飌飍风飏飐飑飒飓飔飕",
            "飖飗飘飙飚飛飜飝飞食飠飡飢飣飤飥飦飧飨飩飪飫飬飭飮飯飰飱飲飳飴飵飶飷飸飹飺飻飼飽飾飿馀馁馂馃馄馅馆馇馈馉馊馋馌馍馎馏馐馑",
            "馒馓馔馕首馗馘香馚馛馜馝馞馟馠馡馢馣馤馥馦馧馨馩馪馫馬馭馮馯馰馱馲馳馴馵馶馷馸馹馺馻馼馽馾馿駀駁駂駃駄駅駆駇駈駉駊駋駌駍",
            "駎駏駐駑駒駓駔駕駖駗駘駙駚駛駜駝駞駟駠駡駢駣駤駥駦駧駨駩駪駫駬駭駮駯駰駱駲駳駴駵駶駷駸駹駺駻駼駽駾駿骀骁骂骃骄骅骆骇骈骉",
            "骊骋验骍骎骏骐骑骒骓骔骕骖骗骘骙骚骛骜骝骞骟骠骡骢骣骤骥骦骧骨骩骪骫骬骭骮骯骰骱骲骳骴骵骶骷骸骹骺骻骼骽骾骿髀髁髂髃髄髅",
            "髆髇髈髉髊髋髌髍髎髏髐髑髒髓體髕髖髗高髙髚髛髜髝髞髟髠髡髢髣髤髥髦髧髨髩髪髫髬髭髮髯髰髱髲髳髴髵髶髷髸髹髺髻髼髽髾髿鮀鮁",
            "鮂鮃鮄鮅鮆鮇鮈鮉鮊鮋鮌鮍鮎鮏鮐鮑鮒鮓鮔鮕鮖鮗鮘鮙鮚鮛鮜鮝鮞鮟鮠鮡鮢鮣鮤鮥鮦鮧鮨鮩鮪鮫鮬鮭鮮鮯鮰鮱鮲鮳鮴鮵鮶鮷鮸鮹鮺鮻鮼鮽",
            "鮾鮿鯀鯁鯂鯃鯄鯅鯆鯇鯈鯉鯊鯋鯌鯍鯎鯏鯐鯑鯒鯓鯔鯕鯖鯗鯘鯙鯚鯛鯜鯝鯞鯟鯠鯡鯢鯣鯤鯥鯦鯧鯨鯩鯪鯫鯬鯭鯮鯯鯰鯱鯲鯳鯴鯵鯶鯷鯸鯹",
            "鯺鯻鯼鯽鯾鯿鲀鲁鲂鲃鲄鲅鲆鲇鲈鲉鲊鲋鲌鲍鲎鲏鲐鲑鲒鲓鲔鲕鲖鲗鲘鲙鲚鲛鲜鲝鲞鲟鲠鲡鲢鲣鲤鲥鲦鲧鲨鲩鲪鲫鲬鲭鲮鲯鲰鲱鲲鲳鲴鲵",
            "鲶鲷鲸鲹鲺鲻鲼鲽鲾鲿鳀鳁鳂鳃鳄鳅鳆鳇鳈鳉鳊鳋鳌鳍鳎鳏鳐鳑鳒鳓鳔鳕鳖鳗鳘鳙鳚鳛鳜鳝鳞鳟鳠鳡鳢鳣鳤鳥鳦鳧鳨鳩鳪鳫鳬鳭鳮鳯鳰鳱",
            "鳲鳳鳴鳵鳶鳷鳸鳹鳺鳻鳼鳽鳾鳿鶀鶁鶂鶃鶄鶅鶆鶇鶈鶉鶊鶋鶌鶍鶎鶏鶐鶑鶒鶓鶔鶕鶖鶗鶘鶙鶚鶛鶜鶝鶞鶟鶠鶡鶢鶣鶤鶥鶦鶧鶨鶩鶪鶫鶬鶭",
            "鶮鶯鶰鶱鶲鶳鶴鶵鶶鶷鶸鶹鶺鶻鶼鶽鶾鶿鷀鷁鷂鷃鷄鷅鷆鷇鷈鷉鷊鷋鷌鷍鷎鷏鷐鷑鷒鷓鷔鷕鷖鷗鷘鷙鷚鷛鷜鷝鷞鷟鷠鷡鷢鷣鷤鷥鷦鷧鷨鷩",
            "鷪鷫鷬鷭鷮鷯鷰鷱鷲鷳鷴鷵鷶鷷鷸鷹鷺鷻鷼鷽鷾鷿麀麁麂麃麄麅麆麇麈麉麊麋麌麍麎麏麐麑麒麓麔麕麖麗麘麙麚麛麜麝麞麟麠麡麢麣麤麥",
            "麦麧麨麩麪麫麬麭麮麯麰麱麲麳麴麵麶麷麸麹麺麻麼麽麾麿黀黁黂黃黄黅黆黇黈黉黊黋黌黍黎黏黐黑黒黓黔黕黖黗默黙黚黛黜黝點黟黠黡",
            "黢黣黤黥黦黧黨黩黪黫黬黭黮黯黰黱黲黳黴黵黶黷黸黹黺黻黼黽黾黿龀龁龂龃龄龅龆龇龈龉龊龋龌龍龎龏龐龑龒龓龔龕龖龗龘龙龚龛龜龝",
            "龞龟龠龡龢龣龤龥龦龧龨龩龪龫龬龭龮龯龰龱龲龳龴龵龶龷龸龹龺龻龼龽龾龿鿀鿁鿂鿃鿄鿅鿆鿇鿈鿉鿊鿋鿌鿍鿎鿏鿐鿑鿒鿓鿔鿕鿖鿗鿘鿙",
            "鿚鿛鿜鿝鿞鿟鿠鿡鿢鿣鿤鿥鿦鿧鿨鿩鿪鿫鿬鿭鿮鿯鿰鿱鿲鿳鿴鿵鿶鿷鿸鿹鿺鿻鿼鿽鿾鿿ꂀꂁꂂꂃꂄꂅꂆꂇꂈꂉꂊꂋꂌꂍꂎꂏꂐꂑꂒꂓꂔꂕ",
            "ꂖꂗꂘꂙꂚꂛꂜꂝꂞꂟꂠꂡꂢꂣꂤꂥꂦꂧꂨꂩꂪꂫꂬꂭꂮꂯꂰꂱꂲꂳꂴꂵꂶꂷꂸꂹꂺꂻꂼꂽꂾꂿꃀꃁꃂꃃꃄꃅꃆꃇꃈꃉꃊꃋꃌꃍꃎꃏꃐꃑ",
            "ꃒꃓꃔꃕꃖꃗꃘꃙꃚꃛꃜꃝꃞꃟꃠꃡꃢꃣꃤꃥꃦꃧꃨꃩꃪꃫꃬꃭꃮꃯꃰꃱꃲꃳꃴꃵꃶꃷꃸꃹꃺꃻꃼꃽꃾꃿꆀꆁꆂꆃꆄꆅꆆꆇꆈꆉꆊꆋꆌꆍ",
            "ꆎꆏꆐꆑꆒꆓꆔꆕꆖꆗꆘꆙꆚꆛꆜꆝꆞꆟꆠꆡꆢꆣꆤꆥꆦꆧꆨꆩꆪꆫꆬꆭꆮꆯꆰꆱꆲꆳꆴꆵꆶꆷꆸꆹꆺꆻꆼꆽꆾꆿꇀꇁꇂꇃꇄꇅꇆꇇꇈꇉ",
            "ꇊꇋꇌꇍꇎꇏꇐꇑꇒꇓꇔꇕꇖꇗꇘꇙꇚꇛꇜꇝꇞꇟꇠꇡꇢꇣꇤꇥꇦꇧꇨꇩꇪꇫꇬꇭꇮꇯꇰꇱꇲꇳꇴꇵꇶꇷꇸꇹꇺꇻꇼꇽꇾꇿꊀꊁꊂꊃꊄꊅ",
            "ꊆꊇꊈꊉꊊꊋꊌꊍꊎꊏꊐꊑꊒꊓꊔꊕꊖꊗꊘꊙꊚꊛꊜꊝꊞꊟꊠꊡꊢꊣꊤꊥꊦꊧꊨꊩꊪꊫꊬꊭꊮꊯꊰꊱꊲꊳꊴꊵꊶꊷꊸꊹꊺꊻꊼꊽꊾꊿꋀꋁ",
            "ꋂꋃꋄꋅꋆꋇꋈꋉꋊꋋꋌꋍꋎꋏꋐꋑꋒꋓꋔꋕꋖꋗꋘꋙꋚꋛꋜꋝꋞꋟꋠꋡꋢꋣꋤꋥꋦꋧꋨꋩꋪꋫꋬꋭꋮꋯꋰꋱꋲꋳꋴꋵꋶꋷꋸꋹꋺꋻꋼꋽ",
            "ꋾꋿꎀꎁꎂꎃꎄꎅꎆꎇꎈꎉꎊꎋꎌꎍꎎꎏꎐꎑꎒꎓꎔꎕꎖꎗꎘꎙꎚꎛꎜꎝꎞꎟꎠꎡꎢꎣꎤꎥꎦꎧꎨꎩꎪꎫꎬꎭꎮꎯꎰꎱꎲꎳꎴꎵꎶꎷꎸꎹ",
            "ꎺꎻꎼꎽꎾꎿꏀꏁꏂꏃꏄꏅꏆꏇꏈꏉꏊꏋꏌꏍꏎꏏꏐꏑꏒꏓꏔꏕꏖꏗꏘꏙꏚꏛꏜꏝꏞꏟꏠꏡꏢꏣꏤꏥꏦꏧꏨꏩꏪꏫꏬꏭꏮꏯꏰꏱꏲꏳꏴꏵ",
            "ꏶꏷꏸꏹꏺꏻꏼꏽꏾꏿꒀꒁꒂꒃꒄꒅꒆꒇꒈꒉꒊꒋꒌꓐꓑꓒꓓꓔꓕꓖꓗꓘꓙꓚꓛꓜꓝꓞꓟꓠꓡꓢꓣꓤꓥꓦꓧꓨꓩꓪꓫꓬꓭꓮꓯꓰꓱꓲꓳꓴ",
            "ꓵꓶꓷꓸꓹꓺꓻꓼꓽꖀꖁꖂꖃꖄꖅꖆꖇꖈꖉꖊꖋꖌꖍꖎꖏꖐꖑꖒꖓꖔꖕꖖꖗꖘꖙꖚꖛꖜꖝꖞꖟꖠꖡꖢꖣꖤꖥꖦꖧꖨꖩꖪꖫꖬꖭꖮꖯꖰꖱꖲ",
            "ꖳꖴꖵꖶꖷꖸꖹꖺꖻꖼꖽꖾꖿꗀꗁꗂꗃꗄꗅꗆꗇꗈꗉꗊꗋꗌꗍꗎꗏꗐꗑꗒꗓꗔꗕꗖꗗꗘꗙꗚꗛꗜꗝꗞꗟꗠꗡꗢꗣꗤꗥꗦꗧꗨꗩꗪꗫꗬꗭꗮ",
            "ꗯꗰꗱꗲꗳꗴꗵꗶꗷꗸꗹꗺꗻꗼꗽꗾꗿꚀꚁꚂꚃꚄꚅꚆꚇꚈꚉꚊꚋꚌꚍꚎꚏꚐꚑꚒꚓꚔꚕꚖꚗꚘꚙꚚꚛꚜꚝꚠꚡꚢꚣꚤꚥꚦꚧꚨꚩꚪꚫꚬ",
            "ꚭꚮꚯꚰꚱꚲꚳꚴꚵꚶꚷꚸꚹꚺꚻꚼꚽꚾꚿꛀꛁꛂꛃꛄꛅꛆꛇꛈꛉꛊꛋꛌꛍꛎꛏꛐꛑꛒꛓꛔꛕꛖꛗꛘꛙꛚꛛꛜꛝꛞꛟꛠꛡꛢꛣꛤꛥꛦꛧꛨ",
            "ꛩꛪꛫꛬꛭꛮꛯꞀꞁꞂꞃꞄꞅꞆꞇꞈꞋꞌꞍꞎꞏꞐꞑꞒꞓꞔꞕꞖꞗꞘꞙꞚꞛꞜꞝꞞꞟꞠꞡꞢꞣꞤꞥꞦꞧꞨꞩꞪꞫꞬꞭꞮꞯꞰꞱꞲꞳꞴꞵꞶ",
            "ꞷꞸꞹꞺꞻꞼꞽꞾꞿꟀꟁꟂꟃꟄꟅꟆꟇꟈꟉꟊꟐꟑꟓꟕꟖꟗꟘꟙꟲꟳꟴꟵꟶꟷꟸꟹꟺꟻꟼꟽꟾꟿꢂꢃꢄꢅꢆꢇꢈꢉꢊꢋꢌꢍꢎꢏꢐꢑꢒꢓ",
            "ꢔꢕꢖꢗꢘꢙꢚꢛꢜꢝꢞꢟꢠꢡꢢꢣꢤꢥꢦꢧꢨꢩꢪꢫꢬꢭꢮꢯꢰꢱꢲꢳ꣐꣑꣒꣓꣔꣕꣖꣗꣘꣙ꣲꣳꣴꣵꣶꣷꣻꣽꣾꦄꦅꦆꦇꦈꦉꦊꦋꦌ",
            "ꦍꦎꦏꦐꦑꦒꦓꦔꦕꦖꦗꦘꦙꦚꦛꦜꦝꦞꦟꦠꦡꦢꦣꦤꦥꦦꦧꦨꦩꦪꦫꦬꦭꦮꦯꦰꦱꦲꧏ꧐꧑꧒꧓꧔꧕꧖꧗꧘꧙ꧠꧡꧢꧣꧤꧦꧧꧨꧩꧪꧫ",
            "ꧬꧭꧮꧯ꧰꧱꧲꧳꧴꧵꧶꧷꧸꧹ꧺꧻꧼꧽꧾꪀꪁꪂꪃꪄꪅꪆꪇꪈꪉꪊꪋꪌꪍꪎꪏꪐꪑꪒꪓꪔꪕꪖꪗꪘꪙꪚꪛꪜꪝꪞꪟꪠꪡꪢꪣꪤꪥꪦꪧꪨ",
            "ꪩꪪꪫꪬꪭꪮꪯꪱꪵꪶꪹꪺꪻꪼꪽꫀꫂꫛꫜꫝꫠꫡꫢꫣꫤꫥꫦꫧꫨꫩꫪꫲꫳꫴꮀꮁꮂꮃꮄꮅꮆꮇꮈꮉꮊꮋꮌꮍꮎꮏꮐꮑꮒꮓꮔꮕꮖꮗꮘꮙ",
            "ꮚꮛꮜꮝꮞꮟꮠꮡꮢꮣꮤꮥꮦꮧꮨꮩꮪꮫꮬꮭꮮꮯꮰꮱꮲꮳꮴꮵꮶꮷꮸꮹꮺꮻꮼꮽꮾꮿꯀꯁꯂꯃꯄꯅꯆꯇꯈꯉꯊꯋꯌꯍꯎꯏꯐꯑꯒꯓꯔꯕ",
            "ꯖꯗꯘꯙꯚꯛꯜꯝꯞꯟꯠꯡꯢ꯰꯱꯲꯳꯴꯵꯶꯷꯸꯹검겁겂것겄겅겆겇겈겉겊겋게겍겎겏겐겑겒겓겔겕겖겗겘겙겚겛겜겝겞겟겠겡겢겣겤",
            "겥겦겧겨격겪겫견겭겮겯결겱겲겳겴겵겶겷겸겹겺겻겼경겾겿곀곁곂곃계곅곆곇곈곉곊곋곌곍곎곏곐곑곒곓곔곕곖곗곘곙곚곛곜곝곞곟고",
            "곡곢곣곤곥곦곧골곩곪곫곬곭곮곯곰곱곲곳곴공곶곷곸곹곺곻과곽곾곿궀궁궂궃궄궅궆궇궈궉궊궋권궍궎궏궐궑궒궓궔궕궖궗궘궙궚궛궜",
            "궝궞궟궠궡궢궣궤궥궦궧궨궩궪궫궬궭궮궯궰궱궲궳궴궵궶궷궸궹궺궻궼궽궾궿귀귁귂귃귄귅귆귇귈귉귊귋귌귍귎귏귐귑귒귓귔귕귖귗귘",
            "귙귚귛규귝귞귟균귡귢귣귤귥귦귧귨귩귪귫귬귭귮귯귰귱귲귳귴귵귶귷그극귺귻근귽귾귿꺀꺁꺂꺃꺄꺅꺆꺇꺈꺉꺊꺋꺌꺍꺎꺏꺐꺑꺒꺓꺔",
            "꺕꺖꺗꺘꺙꺚꺛꺜꺝꺞꺟꺠꺡꺢꺣꺤꺥꺦꺧꺨꺩꺪꺫꺬꺭꺮꺯꺰꺱꺲꺳꺴꺵꺶꺷꺸꺹꺺꺻꺼꺽꺾꺿껀껁껂껃껄껅껆껇껈껉껊껋껌껍껎껏껐",
            "껑껒껓껔껕껖껗께껙껚껛껜껝껞껟껠껡껢껣껤껥껦껧껨껩껪껫껬껭껮껯껰껱껲껳껴껵껶껷껸껹껺껻껼껽껾껿꾀꾁꾂꾃꾄꾅꾆꾇꾈꾉꾊꾋꾌",
            "꾍꾎꾏꾐꾑꾒꾓꾔꾕꾖꾗꾘꾙꾚꾛꾜꾝꾞꾟꾠꾡꾢꾣꾤꾥꾦꾧꾨꾩꾪꾫꾬꾭꾮꾯꾰꾱꾲꾳꾴꾵꾶꾷꾸꾹꾺꾻꾼꾽꾾꾿꿀꿁꿂꿃꿄꿅꿆꿇꿈",
            "꿉꿊꿋꿌꿍꿎꿏꿐꿑꿒꿓꿔꿕꿖꿗꿘꿙꿚꿛꿜꿝꿞꿟꿠꿡꿢꿣꿤꿥꿦꿧꿨꿩꿪꿫꿬꿭꿮꿯꿰꿱꿲꿳꿴꿵꿶꿷꿸꿹꿺꿻꿼꿽꿾꿿낀낁낂낃낄",
            "낅낆낇낈낉낊낋낌낍낎낏낐낑낒낓낔낕낖낗나낙낚낛난낝낞낟날낡낢낣낤낥낦낧남납낪낫났낭낮낯낰낱낲낳내낵낶낷낸낹낺낻낼낽낾낿냀",
            "냁냂냃냄냅냆냇냈냉냊냋냌냍냎냏냐냑냒냓냔냕냖냗냘냙냚냛냜냝냞냟냠냡냢냣냤냥냦냧냨냩냪냫냬냭냮냯냰냱냲냳냴냵냶냷냸냹냺냻냼",
            "냽냾냿놀놁놂놃놄놅놆놇놈놉놊놋놌농놎놏놐놑높놓놔놕놖놗놘놙놚놛놜놝놞놟놠놡놢놣놤놥놦놧놨놩놪놫놬놭놮놯놰놱놲놳놴놵놶놷놸",
            "놹놺놻놼놽놾놿뇀뇁뇂뇃뇄뇅뇆뇇뇈뇉뇊뇋뇌뇍뇎뇏뇐뇑뇒뇓뇔뇕뇖뇗뇘뇙뇚뇛뇜뇝뇞뇟뇠뇡뇢뇣뇤뇥뇦뇧뇨뇩뇪뇫뇬뇭뇮뇯뇰뇱뇲뇳뇴",
            "뇵뇶뇷뇸뇹뇺뇻뇼뇽뇾뇿늀늁늂늃늄늅늆늇늈늉늊늋늌늍늎늏느늑늒늓는늕늖늗늘늙늚늛늜늝늞늟늠늡늢늣늤능늦늧늨늩늪늫늬늭늮늯늰",
            "늱늲늳늴늵늶늷늸늹늺늻늼늽늾늿닀닁닂닃닄닅닆닇니닉닊닋닌닍닎닏닐닑닒닓닔닕닖닗님닙닚닛닜닝닞닟닠닡닢닣다닥닦닧단닩닪닫달",
            "닭닮닯닰닱닲닳담답닶닷닸당닺닻닼닽닾닿뎀뎁뎂뎃뎄뎅뎆뎇뎈뎉뎊뎋뎌뎍뎎뎏뎐뎑뎒뎓뎔뎕뎖뎗뎘뎙뎚뎛뎜뎝뎞뎟뎠뎡뎢뎣뎤뎥뎦뎧뎨",
            "뎩뎪뎫뎬뎭뎮뎯뎰뎱뎲뎳뎴뎵뎶뎷뎸뎹뎺뎻뎼뎽뎾뎿돀돁돂돃도독돆돇돈돉돊돋돌돍돎돏돐돑돒돓돔돕돖돗돘동돚돛돜돝돞돟돠돡돢돣돤",
            "돥돦돧돨돩돪돫돬돭돮돯돰돱돲돳돴돵돶돷돸돹돺돻돼돽돾돿뒀뒁뒂뒃뒄뒅뒆뒇뒈뒉뒊뒋뒌뒍뒎뒏뒐뒑뒒뒓뒔뒕뒖뒗뒘뒙뒚뒛뒜뒝뒞뒟뒠",
            "뒡뒢뒣뒤뒥뒦뒧뒨뒩뒪뒫뒬뒭뒮뒯뒰뒱뒲뒳뒴뒵뒶뒷뒸뒹뒺뒻뒼뒽뒾뒿듀듁듂듃듄듅듆듇듈듉듊듋듌듍듎듏듐듑듒듓듔듕듖듗듘듙듚듛드",
            "득듞듟든듡듢듣들듥듦듧듨듩듪듫듬듭듮듯듰등듲듳듴듵듶듷듸듹듺듻듼듽듾듿떀떁떂떃떄떅떆떇떈떉떊떋떌떍떎떏떐떑떒떓떔떕떖떗떘",
            "떙떚떛떜떝떞떟떠떡떢떣떤떥떦떧떨떩떪떫떬떭떮떯떰떱떲떳떴떵떶떷떸떹떺떻떼떽떾떿뗀뗁뗂뗃뗄뗅뗆뗇뗈뗉뗊뗋뗌뗍뗎뗏뗐뗑뗒뗓뗔",
            "뗕뗖뗗뗘뗙뗚뗛뗜뗝뗞뗟뗠뗡뗢뗣뗤뗥뗦뗧뗨뗩뗪뗫뗬뗭뗮뗯뗰뗱뗲뗳뗴뗵뗶뗷뗸뗹뗺뗻뗼뗽뗾뗿뚀뚁뚂뚃뚄뚅뚆뚇뚈뚉뚊뚋뚌뚍뚎뚏뚐",
            "뚑뚒뚓뚔뚕뚖뚗뚘뚙뚚뚛뚜뚝뚞뚟뚠뚡뚢뚣뚤뚥뚦뚧뚨뚩뚪뚫뚬뚭뚮뚯뚰뚱뚲뚳뚴뚵뚶뚷뚸뚹뚺뚻뚼뚽뚾뚿뛀뛁뛂뛃뛄뛅뛆뛇뛈뛉뛊뛋뛌",
            "뛍뛎뛏뛐뛑뛒뛓뛔뛕뛖뛗뛘뛙뛚뛛뛜뛝뛞뛟뛠뛡뛢뛣뛤뛥뛦뛧뛨뛩뛪뛫뛬뛭뛮뛯뛰뛱뛲뛳뛴뛵뛶뛷뛸뛹뛺뛻뛼뛽뛾뛿란랁랂랃랄랅랆랇랈",
            "랉랊랋람랍랎랏랐랑랒랓랔랕랖랗래랙랚랛랜랝랞랟랠랡랢랣랤랥랦랧램랩랪랫랬랭랮랯랰랱랲랳랴략랶랷랸랹랺랻랼랽랾랿럀럁럂럃럄",
            "럅럆럇럈량럊럋럌럍럎럏럐럑럒럓럔럕럖럗럘럙럚럛럜럝럞럟럠럡럢럣럤럥럦럧럨럩럪럫러럭럮럯런럱럲럳럴럵럶럷럸럹럺럻럼럽럾럿뢀",
            "뢁뢂뢃뢄뢅뢆뢇뢈뢉뢊뢋뢌뢍뢎뢏뢐뢑뢒뢓뢔뢕뢖뢗뢘뢙뢚뢛뢜뢝뢞뢟뢠뢡뢢뢣뢤뢥뢦뢧뢨뢩뢪뢫뢬뢭뢮뢯뢰뢱뢲뢳뢴뢵뢶뢷뢸뢹뢺뢻뢼",
            "뢽뢾뢿룀룁룂룃룄룅룆룇룈룉룊룋료룍룎룏룐룑룒룓룔룕룖룗룘룙룚룛룜룝룞룟룠룡룢룣룤룥룦룧루룩룪룫룬룭룮룯룰룱룲룳룴룵룶룷룸",
            "룹룺룻룼룽룾룿릀릁릂릃름릅릆릇릈릉릊릋릌릍릎릏릐릑릒릓릔릕릖릗릘릙릚릛릜릝릞릟릠릡릢릣릤릥릦릧릨릩릪릫리릭릮릯린릱릲릳릴",
            "릵릶릷릸릹릺릻림립릾릿맀링맂맃맄맅맆맇마막맊맋만맍많맏말맑맒맓맔맕맖맗맘맙맚맛맜망맞맟맠맡맢맣매맥맦맧맨맩맪맫맬맭맮맯맰",
            "맱맲맳맴맵맶맷맸맹맺맻맼맽맾맿몀몁몂몃몄명몆몇몈몉몊몋몌몍몎몏몐몑몒몓몔몕몖몗몘몙몚몛몜몝몞몟몠몡몢몣몤몥몦몧모목몪몫몬",
            "몭몮몯몰몱몲몳몴몵몶몷몸몹몺못몼몽몾몿뫀뫁뫂뫃뫄뫅뫆뫇뫈뫉뫊뫋뫌뫍뫎뫏뫐뫑뫒뫓뫔뫕뫖뫗뫘뫙뫚뫛뫜뫝뫞뫟뫠뫡뫢뫣뫤뫥뫦뫧뫨",
            "뫩뫪뫫뫬뫭뫮뫯뫰뫱뫲뫳뫴뫵뫶뫷뫸뫹뫺뫻뫼뫽뫾뫿뮀뮁뮂뮃뮄뮅뮆뮇뮈뮉뮊뮋뮌뮍뮎뮏뮐뮑뮒뮓뮔뮕뮖뮗뮘뮙뮚뮛뮜뮝뮞뮟뮠뮡뮢뮣뮤",
            "뮥뮦뮧뮨뮩뮪뮫뮬뮭뮮뮯뮰뮱뮲뮳뮴뮵뮶뮷뮸뮹뮺뮻뮼뮽뮾뮿므믁믂믃믄믅믆믇믈믉믊믋믌믍믎믏믐믑믒믓믔믕믖믗믘믙믚믛믜믝믞믟믠",
            "믡믢믣믤믥믦믧믨믩믪믫믬믭믮믯믰믱믲믳믴믵믶믷미믹믺믻민믽믾믿벀벁벂벃버벅벆벇번벉벊벋벌벍벎벏벐벑벒벓범법벖벗벘벙벚벛벜",
            "벝벞벟베벡벢벣벤벥벦벧벨벩벪벫벬벭벮벯벰벱벲벳벴벵벶벷벸벹벺벻벼벽벾벿변볁볂볃별볅볆볇볈볉볊볋볌볍볎볏볐병볒볓볔볕볖볗볘",
            "볙볚볛볜볝볞볟볠볡볢볣볤볥볦볧볨볩볪볫볬볭볮볯볰볱볲볳보복볶볷본볹볺볻볼볽볾볿부북붂붃분붅붆붇불붉붊붋붌붍붎붏붐붑붒붓붔",
            "붕붖붗붘붙붚붛붜붝붞붟붠붡붢붣붤붥붦붧붨붩붪붫붬붭붮붯붰붱붲붳붴붵붶붷붸붹붺붻붼붽붾붿뷀뷁뷂뷃뷄뷅뷆뷇뷈뷉뷊뷋뷌뷍뷎뷏뷐",
            "뷑뷒뷓뷔뷕뷖뷗뷘뷙뷚뷛뷜뷝뷞뷟뷠뷡뷢뷣뷤뷥뷦뷧뷨뷩뷪뷫뷬뷭뷮뷯뷰뷱뷲뷳뷴뷵뷶뷷뷸뷹뷺뷻뷼뷽뷾뷿뺀뺁뺂뺃뺄뺅뺆뺇뺈뺉뺊뺋뺌",
            "뺍뺎뺏뺐뺑뺒뺓뺔뺕뺖뺗뺘뺙뺚뺛뺜뺝뺞뺟뺠뺡뺢뺣뺤뺥뺦뺧뺨뺩뺪뺫뺬뺭뺮뺯뺰뺱뺲뺳뺴뺵뺶뺷뺸뺹뺺뺻뺼뺽뺾뺿뻀뻁뻂뻃뻄뻅뻆뻇뻈",
            "뻉뻊뻋뻌뻍뻎뻏뻐뻑뻒뻓뻔뻕뻖뻗뻘뻙뻚뻛뻜뻝뻞뻟뻠뻡뻢뻣뻤뻥뻦뻧뻨뻩뻪뻫뻬뻭뻮뻯뻰뻱뻲뻳뻴뻵뻶뻷뻸뻹뻺뻻뻼뻽뻾뻿뾀뾁뾂뾃뾄",
            "뾅뾆뾇뾈뾉뾊뾋뾌뾍뾎뾏뾐뾑뾒뾓뾔뾕뾖뾗뾘뾙뾚뾛뾜뾝뾞뾟뾠뾡뾢뾣뾤뾥뾦뾧뾨뾩뾪뾫뾬뾭뾮뾯뾰뾱뾲뾳뾴뾵뾶뾷뾸뾹뾺뾻뾼뾽뾾뾿뿀",
            "뿁뿂뿃뿄뿅뿆뿇뿈뿉뿊뿋뿌뿍뿎뿏뿐뿑뿒뿓뿔뿕뿖뿗뿘뿙뿚뿛뿜뿝뿞뿟뿠뿡뿢뿣뿤뿥뿦뿧뿨뿩뿪뿫뿬뿭뿮뿯뿰뿱뿲뿳뿴뿵뿶뿷뿸뿹뿺뿻뿼",
            "뿽뿾뿿삀삁삂삃삄삅삆삇삈삉삊삋삌삍삎삏삐삑삒삓삔삕삖삗삘삙삚삛삜삝삞삟삠삡삢삣삤삥삦삧삨삩삪삫사삭삮삯산삱삲삳살삵삶삷삸",
            "삹삺삻삼삽삾삿샀상샂샃샄샅샆샇새색샊샋샌샍샎샏샐샑샒샓샔샕샖샗샘샙샚샛샜생샞샟샠샡샢샣샤샥샦샧샨샩샪샫샬샭샮샯샰샱샲샳샴",
            "샵샶샷샸샹샺샻샼샽샾샿솀솁솂솃솄솅솆솇솈솉솊솋소속솎솏손솑솒솓솔솕솖솗솘솙솚솛솜솝솞솟솠송솢솣솤솥솦솧솨솩솪솫솬솭솮솯솰",
            "솱솲솳솴솵솶솷솸솹솺솻솼솽솾솿쇀쇁쇂쇃쇄쇅쇆쇇쇈쇉쇊쇋쇌쇍쇎쇏쇐쇑쇒쇓쇔쇕쇖쇗쇘쇙쇚쇛쇜쇝쇞쇟쇠쇡쇢쇣쇤쇥쇦쇧쇨쇩쇪쇫쇬",
            "쇭쇮쇯쇰쇱쇲쇳쇴쇵쇶쇷쇸쇹쇺쇻쇼쇽쇾쇿슀슁슂슃슄슅슆슇슈슉슊슋슌슍슎슏슐슑슒슓슔슕슖슗슘슙슚슛슜슝슞슟슠슡슢슣스슥슦슧슨",
            "슩슪슫슬슭슮슯슰슱슲슳슴습슶슷슸승슺슻슼슽슾슿싀싁싂싃싄싅싆싇싈싉싊싋싌싍싎싏싐싑싒싓싔싕싖싗싘싙싚싛시식싞싟신싡싢싣실",
            "싥싦싧싨싩싪싫심십싮싯싰싱싲싳싴싵싶싷싸싹싺싻싼싽싾싿쎀쎁쎂쎃쎄쎅쎆쎇쎈쎉쎊쎋쎌쎍쎎쎏쎐쎑쎒쎓쎔쎕쎖쎗쎘쎙쎚쎛쎜쎝쎞쎟쎠",
            "쎡쎢쎣쎤쎥쎦쎧쎨쎩쎪쎫쎬쎭쎮쎯쎰쎱쎲쎳쎴쎵쎶쎷쎸쎹쎺쎻쎼쎽쎾쎿쏀쏁쏂쏃쏄쏅쏆쏇쏈쏉쏊쏋쏌쏍쏎쏏쏐쏑쏒쏓쏔쏕쏖쏗쏘쏙쏚쏛쏜",
            "쏝쏞쏟쏠쏡쏢쏣쏤쏥쏦쏧쏨쏩쏪쏫쏬쏭쏮쏯쏰쏱쏲쏳쏴쏵쏶쏷쏸쏹쏺쏻쏼쏽쏾쏿쒀쒁쒂쒃쒄쒅쒆쒇쒈쒉쒊쒋쒌쒍쒎쒏쒐쒑쒒쒓쒔쒕쒖쒗쒘",
            "쒙쒚쒛쒜쒝쒞쒟쒠쒡쒢쒣쒤쒥쒦쒧쒨쒩쒪쒫쒬쒭쒮쒯쒰쒱쒲쒳쒴쒵쒶쒷쒸쒹쒺쒻쒼쒽쒾쒿쓀쓁쓂쓃쓄쓅쓆쓇쓈쓉쓊쓋쓌쓍쓎쓏쓐쓑쓒쓓쓔",
            "쓕쓖쓗쓘쓙쓚쓛쓜쓝쓞쓟쓠쓡쓢쓣쓤쓥쓦쓧쓨쓩쓪쓫쓬쓭쓮쓯쓰쓱쓲쓳쓴쓵쓶쓷쓸쓹쓺쓻쓼쓽쓾쓿얀얁얂얃얄얅얆얇얈얉얊얋얌얍얎얏얐",
            "양얒얓얔얕얖얗얘얙얚얛얜얝얞얟얠얡얢얣얤얥얦얧얨얩얪얫얬얭얮얯얰얱얲얳어억얶얷언얹얺얻얼얽얾얿엀엁엂엃엄업없엇었엉엊엋엌",
            "엍엎엏에엑엒엓엔엕엖엗엘엙엚엛엜엝엞엟엠엡엢엣엤엥엦엧엨엩엪엫여역엮엯연엱엲엳열엵엶엷엸엹엺엻염엽엾엿욀욁욂욃욄욅욆욇욈",
            "욉욊욋욌욍욎욏욐욑욒욓요욕욖욗욘욙욚욛욜욝욞욟욠욡욢욣욤욥욦욧욨용욪욫욬욭욮욯우욱욲욳운욵욶욷울욹욺욻욼욽욾욿움웁웂웃웄",
            "웅웆웇웈웉웊웋워웍웎웏원웑웒웓월웕웖웗웘웙웚웛웜웝웞웟웠웡웢웣웤웥웦웧웨웩웪웫웬웭웮웯웰웱웲웳웴웵웶웷웸웹웺웻웼웽웾웿잀",
            "잁잂잃임입잆잇있잉잊잋잌잍잎잏자작잒잓잔잕잖잗잘잙잚잛잜잝잞잟잠잡잢잣잤장잦잧잨잩잪잫재잭잮잯잰잱잲잳잴잵잶잷잸잹잺잻잼",
            "잽잾잿쟀쟁쟂쟃쟄쟅쟆쟇쟈쟉쟊쟋쟌쟍쟎쟏쟐쟑쟒쟓쟔쟕쟖쟗쟘쟙쟚쟛쟜쟝쟞쟟쟠쟡쟢쟣쟤쟥쟦쟧쟨쟩쟪쟫쟬쟭쟮쟯쟰쟱쟲쟳쟴쟵쟶쟷쟸",
            "쟹쟺쟻쟼쟽쟾쟿좀좁좂좃좄종좆좇좈좉좊좋좌좍좎좏좐좑좒좓좔좕좖좗좘좙좚좛좜좝좞좟좠좡좢좣좤좥좦좧좨좩좪좫좬좭좮좯좰좱좲좳좴",
            "좵좶좷좸좹좺좻좼좽좾좿죀죁죂죃죄죅죆죇죈죉죊죋죌죍죎죏죐죑죒죓죔죕죖죗죘죙죚죛죜죝죞죟죠죡죢죣죤죥죦죧죨죩죪죫죬죭죮죯죰",
            "죱죲죳죴죵죶죷죸죹죺죻주죽죾죿즀즁즂즃즄즅즆즇즈즉즊즋즌즍즎즏즐즑즒즓즔즕즖즗즘즙즚즛즜증즞즟즠즡즢즣즤즥즦즧즨즩즪즫즬",
            "즭즮즯즰즱즲즳즴즵즶즷즸즹즺즻즼즽즾즿지직짂짃진짅짆짇질짉짊짋짌짍짎짏짐집짒짓짔징짖짗짘짙짚짛짜짝짞짟짠짡짢짣짤짥짦짧짨",
            "짩짪짫짬짭짮짯짰짱짲짳짴짵짶짷째짹짺짻짼짽짾짿쪀쪁쪂쪃쪄쪅쪆쪇쪈쪉쪊쪋쪌쪍쪎쪏쪐쪑쪒쪓쪔쪕쪖쪗쪘쪙쪚쪛쪜쪝쪞쪟쪠쪡쪢쪣쪤",
            "쪥쪦쪧쪨쪩쪪쪫쪬쪭쪮쪯쪰쪱쪲쪳쪴쪵쪶쪷쪸쪹쪺쪻쪼쪽쪾쪿쫀쫁쫂쫃쫄쫅쫆쫇쫈쫉쫊쫋쫌쫍쫎쫏쫐쫑쫒쫓쫔쫕쫖쫗쫘쫙쫚쫛쫜쫝쫞쫟쫠",
            "쫡쫢쫣쫤쫥쫦쫧쫨쫩쫪쫫쫬쫭쫮쫯쫰쫱쫲쫳쫴쫵쫶쫷쫸쫹쫺쫻쫼쫽쫾쫿쮀쮁쮂쮃쮄쮅쮆쮇쮈쮉쮊쮋쮌쮍쮎쮏쮐쮑쮒쮓쮔쮕쮖쮗쮘쮙쮚쮛쮜",
            "쮝쮞쮟쮠쮡쮢쮣쮤쮥쮦쮧쮨쮩쮪쮫쮬쮭쮮쮯쮰쮱쮲쮳쮴쮵쮶쮷쮸쮹쮺쮻쮼쮽쮾쮿쯀쯁쯂쯃쯄쯅쯆쯇쯈쯉쯊쯋쯌쯍쯎쯏쯐쯑쯒쯓쯔쯕쯖쯗쯘",
            "쯙쯚쯛쯜쯝쯞쯟쯠쯡쯢쯣쯤쯥쯦쯧쯨쯩쯪쯫쯬쯭쯮쯯쯰쯱쯲쯳쯴쯵쯶쯷쯸쯹쯺쯻쯼쯽쯾쯿첀첁첂첃첄첅첆첇첈첉첊첋첌첍첎첏첐첑첒첓첔",
            "첕첖첗처척첚첛천첝첞첟철첡첢첣첤첥첦첧첨첩첪첫첬청첮첯첰첱첲첳체첵첶첷첸첹첺첻첼첽첾첿쳀쳁쳂쳃쳄쳅쳆쳇쳈쳉쳊쳋쳌쳍쳎쳏쳐",
            "쳑쳒쳓쳔쳕쳖쳗쳘쳙쳚쳛쳜쳝쳞쳟쳠쳡쳢쳣쳤쳥쳦쳧쳨쳩쳪쳫쳬쳭쳮쳯쳰쳱쳲쳳쳴쳵쳶쳷쳸쳹쳺쳻쳼쳽쳾쳿춀춁춂춃춄춅춆춇춈춉춊춋춌",
            "춍춎춏춐춑춒춓추축춖춗춘춙춚춛출춝춞춟춠춡춢춣춤춥춦춧춨충춪춫춬춭춮춯춰춱춲춳춴춵춶춷춸춹춺춻춼춽춾춿췀췁췂췃췄췅췆췇췈",
            "췉췊췋췌췍췎췏췐췑췒췓췔췕췖췗췘췙췚췛췜췝췞췟췠췡췢췣췤췥췦췧취췩췪췫췬췭췮췯췰췱췲췳췴췵췶췷췸췹췺췻췼췽췾췿캀캁캂캃캄",
            "캅캆캇캈캉캊캋캌캍캎캏캐캑캒캓캔캕캖캗캘캙캚캛캜캝캞캟캠캡캢캣캤캥캦캧캨캩캪캫캬캭캮캯캰캱캲캳캴캵캶캷캸캹캺캻캼캽캾캿컀",
            "컁컂컃컄컅컆컇컈컉컊컋컌컍컎컏컐컑컒컓컔컕컖컗컘컙컚컛컜컝컞컟컠컡컢컣커컥컦컧컨컩컪컫컬컭컮컯컰컱컲컳컴컵컶컷컸컹컺컻컼",
            "컽컾컿쾀쾁쾂쾃쾄쾅쾆쾇쾈쾉쾊쾋쾌쾍쾎쾏쾐쾑쾒쾓쾔쾕쾖쾗쾘쾙쾚쾛쾜쾝쾞쾟쾠쾡쾢쾣쾤쾥쾦쾧쾨쾩쾪쾫쾬쾭쾮쾯쾰쾱쾲쾳쾴쾵쾶쾷쾸",
            "쾹쾺쾻쾼쾽쾾쾿쿀쿁쿂쿃쿄쿅쿆쿇쿈쿉쿊쿋쿌쿍쿎쿏쿐쿑쿒쿓쿔쿕쿖쿗쿘쿙쿚쿛쿜쿝쿞쿟쿠쿡쿢쿣쿤쿥쿦쿧쿨쿩쿪쿫쿬쿭쿮쿯쿰쿱쿲쿳쿴",
            "쿵쿶쿷쿸쿹쿺쿻쿼쿽쿾쿿킀킁킂킃킄킅킆킇킈킉킊킋킌킍킎킏킐킑킒킓킔킕킖킗킘킙킚킛킜킝킞킟킠킡킢킣키킥킦킧킨킩킪킫킬킭킮킯킰",
            "킱킲킳킴킵킶킷킸킹킺킻킼킽킾킿타탁탂탃탄탅탆탇탈탉탊탋탌탍탎탏탐탑탒탓탔탕탖탗탘탙탚탛태택탞탟탠탡탢탣탤탥탦탧탨탩탪탫탬",
            "탭탮탯탰탱탲탳탴탵탶탷탸탹탺탻탼탽탾탿톀톁톂톃톄톅톆톇톈톉톊톋톌톍톎톏톐톑톒톓톔톕톖톗톘톙톚톛톜톝톞톟토톡톢톣톤톥톦톧톨",
            "톩톪톫톬톭톮톯톰톱톲톳톴통톶톷톸톹톺톻톼톽톾톿퇀퇁퇂퇃퇄퇅퇆퇇퇈퇉퇊퇋퇌퇍퇎퇏퇐퇑퇒퇓퇔퇕퇖퇗퇘퇙퇚퇛퇜퇝퇞퇟퇠퇡퇢퇣퇤",
            "퇥퇦퇧퇨퇩퇪퇫퇬퇭퇮퇯퇰퇱퇲퇳퇴퇵퇶퇷퇸퇹퇺퇻퇼퇽퇾퇿튀튁튂튃튄튅튆튇튈튉튊튋튌튍튎튏튐튑튒튓튔튕튖튗튘튙튚튛튜튝튞튟튠",
            "튡튢튣튤튥튦튧튨튩튪튫튬튭튮튯튰튱튲튳튴튵튶튷트특튺튻튼튽튾튿틀틁틂틃틄틅틆틇틈틉틊틋틌틍틎틏틐틑틒틓틔틕틖틗틘틙틚틛틜",
            "틝틞틟틠틡틢틣틤틥틦틧틨틩틪틫틬틭틮틯티틱틲틳틴틵틶틷틸틹틺틻틼틽틾틿펀펁펂펃펄펅펆펇펈펉펊펋펌펍펎펏펐펑펒펓펔펕펖펗페",
            "펙펚펛펜펝펞펟펠펡펢펣펤펥펦펧펨펩펪펫펬펭펮펯펰펱펲펳펴펵펶펷편펹펺펻펼펽펾펿폀폁폂폃폄폅폆폇폈평폊폋폌폍폎폏폐폑폒폓폔",
            "폕폖폗폘폙폚폛폜폝폞폟폠폡폢폣폤폥폦폧폨폩폪폫포폭폮폯폰폱폲폳폴폵폶폷폸폹폺폻폼폽폾폿풀풁풂풃풄풅풆풇품풉풊풋풌풍풎풏풐",
            "풑풒풓풔풕풖풗풘풙풚풛풜풝풞풟풠풡풢풣풤풥풦풧풨풩풪풫풬풭풮풯풰풱풲풳풴풵풶풷풸풹풺풻풼풽풾풿퓀퓁퓂퓃퓄퓅퓆퓇퓈퓉퓊퓋퓌",
            "퓍퓎퓏퓐퓑퓒퓓퓔퓕퓖퓗퓘퓙퓚퓛퓜퓝퓞퓟퓠퓡퓢퓣퓤퓥퓦퓧퓨퓩퓪퓫퓬퓭퓮퓯퓰퓱퓲퓳퓴퓵퓶퓷퓸퓹퓺퓻퓼퓽퓾퓿햀햁햂햃햄햅햆햇했",
            "행햊햋햌햍햎햏햐햑햒햓햔햕햖햗햘햙햚햛햜햝햞햟햠햡햢햣햤향햦햧햨햩햪햫햬햭햮햯햰햱햲햳햴햵햶햷햸햹햺햻햼햽햾햿헀헁헂헃헄",
            "헅헆헇허헉헊헋헌헍헎헏헐헑헒헓헔헕헖헗험헙헚헛헜헝헞헟헠헡헢헣헤헥헦헧헨헩헪헫헬헭헮헯헰헱헲헳헴헵헶헷헸헹헺헻헼헽헾헿횀",
            "횁횂횃횄횅횆횇횈횉횊횋회획횎횏횐횑횒횓횔횕횖횗횘횙횚횛횜횝횞횟횠횡횢횣횤횥횦횧효횩횪횫횬횭횮횯횰횱횲횳횴횵횶횷횸횹횺횻횼",
            "횽횾횿훀훁훂훃후훅훆훇훈훉훊훋훌훍훎훏훐훑훒훓훔훕훖훗훘훙훚훛훜훝훞훟훠훡훢훣훤훥훦훧훨훩훪훫훬훭훮훯훰훱훲훳훴훵훶훷훸",
            "훹훺훻훼훽훾훿힀힁힂힃힄힅힆힇히힉힊힋힌힍힎힏힐힑힒힓힔힕힖힗힘힙힚힛힜힝힞힟힠힡힢힣ힰힱힲힳힴힵힶힷힸힹힺힻힼힽힾힿퟀ",
            "ퟁퟂퟃퟄퟅퟆퟋퟌퟍퟎퟏퟐퟑퟒퟓퟔퟕퟖퟗퟘퟙퟚퟛퟜퟝퟞퟟퟠퟡퟢퟣퟤퟥퟦퟧퟨퟩퟪퟫퟬퟭퟮퟯퟰퟱퟲퟳퟴퟵퟶퟷퟸퟹퟺퟻ呂女廬旅濾",
            "礪閭驪麗黎力曆歷轢年憐戀撚漣煉璉秊練聯輦蓮連鍊列劣咽烈裂說廉念捻殮簾獵令囹寧嶺怜玲瑩羚聆鈴零靈領例禮醴隸惡了僚寮尿料樂燎",
            "療蓼遼龍暈阮劉杻柳流溜琉留硫紐類六戮陸倫崙淪輪律慄栗率隆利吏履易李梨泥理痢罹裏裡里離匿溺吝燐璘藺隣鱗麟林淋臨立笠粒狀炙識",
            "什茶刺婢嬨廒廙彩徭惘慎愈憎慠懲戴揄搜摒敖晴朗望杖歹殺流滛滋漢瀞煮瞧爵犯猪瑱甆画瘝瘟益盛直睊着磌窱節类絛練缾者荒華蝹襁覆視",
            "調諸請謁諾諭謹變贈輸遲醙鉶陼難靖韛響頋頻鬒龜𢡊𢡄𣏕㮝䀘䀹𥉉𥳐𧻓齃龎ﮀﮁﮂﮃﮄﮅﮆﮇﮈﮉﮊﮋﮌﮍﮎﮏﮐﮑﮒﮓﮔﮕﮖﮗﮘﮙﮚ",
            "ﮛﮜﮝﮞﮟﮠﮡﮢﮣﮤﮥﮦﮧﮨﮩﮪﮫﮬﮭﮮﮯﮰﮱﯓﯔﯕﯖﯗﯘﯙﯚﯛﯜﯝﯞﯟﯠﯡﯢﯣﯤﯥﯦﯧﯨﯩﯪﯫﯬﯭﯮﯯﯰﯱﯲﯳﯴﯵﯶﯷ",
            "ﯸﯹﯺﯻﯼﯽﯾﯿﲀﲁﲂﲃﲄﲅﲆﲇﲈﲉﲊﲋﲌﲍﲎﲏﲐﲑﲒﲓﲔﲕﲖﲗﲘﲙﲚﲛﲜﲝﲞﲟﲠﲡﲢﲣﲤﲥﲦﲧﲨﲩﲪﲫﲬﲭﲮﲯﲰﲱﲲﲳ",
            "ﲴﲵﲶﲷﲸﲹﲺﲻﲼﲽﲾﲿﳀﳁﳂﳃﳄﳅﳆﳇﳈﳉﳊﳋﳌﳍﳎﳏﳐﳑﳒﳓﳔﳕﳖﳗﳘﳙﳚﳛﳜﳝﳞﳟﳠﳡﳢﳣﳤﳥﳦﳧﳨﳩﳪﳫﳬﳭﳮﳯ",
            "ﳰﳱﳲﳳﳴﳵﳶﳷﳸﳹﳺﳻﳼﳽﳾﳿﶀﶁﶂﶃﶄﶅﶆﶇﶈﶉﶊﶋﶌﶍﶎﶏﶒﶓﶔﶕﶖﶗﶘﶙﶚﶛﶜﶝﶞﶟﶠﶡﶢﶣﶤﶥﶦﶧﶨﶩﶪﶫﶬﶭ",
            "ﶮﶯﶰﶱﶲﶳﶴﶵﶶﶷﶸﶹﶺﶻﶼﶽﶾﶿﷀﷁﷂﷃﷄﷅﷆﷇﷰﷱﷲﷳﷴﷵﷶﷷﷸﷹﷺﷻﺀﺁﺂﺃﺄﺅﺆﺇﺈﺉﺊﺋﺌﺍﺎﺏﺐﺑﺒﺓﺔﺕ",
            "ﺖﺗﺘﺙﺚﺛﺜﺝﺞﺟﺠﺡﺢﺣﺤﺥﺦﺧﺨﺩﺪﺫﺬﺭﺮﺯﺰﺱﺲﺳﺴﺵﺶﺷﺸﺹﺺﺻﺼﺽﺾﺿﻀﻁﻂﻃﻄﻅﻆﻇﻈﻉﻊﻋﻌﻍﻎﻏﻐﻑ",
            "ﻒﻓﻔﻕﻖﻗﻘﻙﻚﻛﻜﻝﻞﻟﻠﻡﻢﻣﻤﻥﻦﻧﻨﻩﻪﻫﻬﻭﻮﻯﻰﻱﻲﻳﻴﻵﻶﻷﻸﻹﻺﻻﻼﾀﾁﾂﾃﾄﾅﾆﾇﾈﾉﾊﾋﾌﾍﾎﾏﾐ",
            "ﾑﾒﾓﾔﾕﾖﾗﾘﾙﾚﾛﾜﾝﾞﾟﾠﾡﾢﾣﾤﾥﾦﾧﾨﾩﾪﾫﾬﾭﾮﾯﾰﾱﾲﾳﾴﾵﾶﾷﾸﾹﾺﾻﾼﾽﾾￂￃￄￅￆￇￊￋￌￍￎￏￒￓ",
            "ￔￕￖￗￚￛￜ">>)

UpperAlphabet == "ABCDEFGHIJKLMNOPQRSTUVWXYZ"

LowerAlphabet == "abcdefghijklmnopqrstuvwxyz"

\* the characters other than A to Z and U+03A3 that str.lower() changes ...
OtherUppers ==
  "ÀÁÂÃÄÅÆÇÈÉÊËÌÍÎÏÐÑÒÓÔÕÖØÙÚÛÜÝÞƂƄƇƋƎƑƘƠƢƤƦƧƩƬƮƯƱƲƳƵ"
  \o "ƷƸƼǄǅǇǈǊǋǍǏǑǓǕǗǙǛǞǠǢǤǦǨǪǬǮǱǲǴǶǷǸǺǼǾΆΈΉΊΌΎΏΑΒΓΔΕΖΗΘ"
  \o "ΙΚΛΜΝΞΟΠΡΤΥΦΧΨΩΪΫϏϘϚϜϞϠϢϤϦϨϪϬϮϴϷϹϺҀҊҌҎҐҒҔҖҘҚҜҞҠҢҤҦ"
  \o "ҨҪҬҮҰҲҴҶҸҺҼҾӀӁӃӅӇӉӋӍӐӒӔӖӘӚӜӞӠӢӤӦӨӪӬӮӰӲӴӶӸӺӼӾᎰᎱᎲᎳᎴᎵ"
  \o "ᎶᎷᎸᎹᎺᎻᎼᎽᎾᎿᏀᏁᏂᏃᏄᏅᏆᏇᏈᏉᏊᏋᏌᏍᏎᏏᏐᏑᏒᏓᏔᏕᏖᏗᏘᏙᏚᏛᏜᏝᏞᏟᏠᏡᏢᏣᏤᏥᏦᏧ"
  \o "ᏨᏩᏪᏫᏬᏭᏮᏯᏰᏱᏲᏳᏴᏵᲐᲑᲒᲓᲔᲕᲖᲗᲘᲙᲚᲛᲜᲝᲞᲟᲠᲡᲢᲣᲤᲥᲦᲧᲨᲩᲪᲫᲬᲭᲮᲯᲰᲱᲲᲳ"
  \o "ᲴᲵᲶᲷᲸᲹᲺᲽᲾᲿẀẂẄẆẈẊẌẎẐẒẔẞẠẢẤẦẨẪẬẮẰẲẴẶẸẺẼẾỀỂỄỆỈỊỌỎỐỒỔỖ"
  \o "ỘỚỜỞỠỢỤỦỨỪỬỮỰỲỴỶỸỺỼỾᾈᾉᾊᾋᾌᾍᾎᾏᾘᾙᾚᾛᾜᾝᾞᾟᾨᾩᾪᾫᾬᾭᾮᾯᾸᾹᾼῌῘῙ"
  \o "ῨῩῬῼↃⒶⒷⒸⒹⒺⒻⒼⒽⒾⒿⓀⓁⓂⓃⓄⓅⓆⓇⓈⓉⓊⓋⓌⓍⓎⓏⲀⲂⲄⲆⲈⲊⲌⲎⲐⲒⲔⲖⲘⲚⲜⲞⲠⲢⲤ"
  \o "ⲦⲨⲪⲬⲮⲰⲲⲴⲶⲸⲺⲼⲾⳀⳂⳄⳆⳈⳊⳌⳎⳐⳒⳔⳖⳘⳚⳜⳞⳠⳢⳫⳭⳲꚀꚂꚄꚆꚈꚊꚌꚎꚐꚒꚔꚖꚘꚚꞀꞂ"
  \o "ꞄꞆꞋꞐꞒꞖꞘꞚꞜꞞꞠꞢꞤꞦꞨꞰꞱꞲꞴꞶꞸꞺꞼꞾꟀꟂꟄꟅꟆꟇꟉꟐꟖꟘꟵ"

\* ... and, at the same index, what it changes each to
OtherLowers ==
  "àáâãäåæçèéêëìíîïðñòóôõöøùúûüýþƃƅƈƌǝƒƙơƣƥʀƨʃƭʈưʊʋƴƶ"
  \o "ʒƹƽǆǆǉǉǌǌǎǐǒǔǖǘǚǜǟǡǣǥǧǩǫǭǯǳǳǵƕƿǹǻǽǿάέήίόύώαβγδεζηθ"
  \o "ικλμνξοπρτυφχψωϊϋϗϙϛϝϟϡϣϥϧϩϫϭϯθϸϲϻҁҋҍҏґғҕҗҙқҝҟҡңҥҧ"
  \o "ҩҫҭүұҳҵҷҹһҽҿӏӂӄӆӈӊӌӎӑӓӕӗәӛӝӟӡӣӥӧөӫӭӯӱӳӵӷӹӻӽӿꮀꮁꮂꮃꮄꮅ"
  \o "ꮆꮇꮈꮉꮊꮋꮌꮍꮎꮏꮐꮑꮒꮓꮔꮕꮖꮗꮘꮙꮚꮛꮜꮝꮞꮟꮠꮡꮢꮣꮤꮥꮦꮧꮨꮩꮪꮫꮬꮭꮮꮯꮰꮱꮲꮳꮴꮵꮶꮷ"
  \o "ꮸꮹꮺꮻꮼꮽꮾꮿᏸᏹᏺᏻᏼᏽაბგდევზთიკლმნოპჟრსტუფქღყშჩცძწჭხჯჰჱჲჳ"
  \o "ჴჵჶჷჸჹჺჽჾჿẁẃẅẇẉẋẍẏẑẓẕßạảấầẩẫậắằẳẵặẹẻẽếềểễệỉịọỏốồổỗ"
  \o "ộớờởỡợụủứừửữựỳỵỷỹỻỽỿᾀᾁᾂᾃᾄᾅᾆᾇᾐᾑᾒᾓᾔᾕᾖᾗᾠᾡᾢᾣᾤᾥᾦᾧᾰᾱᾳῃῐῑ"
  \o "ῠῡῥῳↄⓐⓑⓒⓓⓔⓕⓖⓗⓘⓙⓚⓛⓜⓝⓞⓟⓠⓡⓢⓣⓤⓥⓦⓧⓨⓩⲁⲃⲅⲇⲉⲋⲍⲏⲑⲓⲕⲗⲙⲛⲝⲟⲡⲣⲥ"
  \o "ⲧⲩⲫⲭⲯⲱⲳⲵⲷⲹⲻⲽⲿⳁⳃⳅⳇⳉⳋⳍⳏⳑⳓⳕⳗⳙⳛⳝⳟⳡⳣⳬⳮⳳꚁꚃꚅꚇꚉꚋꚍꚏꚑꚓꚕꚗꚙꚛꞁꞃ"
  \o "ꞅꞇꞌꞑꞓꞗꞙꞛꞝꞟꞡꞣꞥꞧꞩʞʇʝꞵꞷꞹꞻꞽꞿꟁꟃꞔʂᶎꟈꟊꟑꟗꟙꟶ"

\* the characters that str.lower() changes to one no string here can hold
LowerUnheld ==
  CharsIn(<<"ƁƆƉƊƏƐƓƔƖƗƜƝƟϽϾϿႠႡႢႣႤႥႦႧႨႩႪႫႬႭႮႯႰႱႲႳႴႵႶႷႸႹႺႻႼႽႾႿჀჁჂჃჄჅჇჍᎠᎡᎢᎣ",
            "ᎤᎥᎦᎧᎨᎩᎪᎫᎬᎭᎮᎯᾺΆῈΈῊΉῚΊῪΎῸΌῺΏꞍꞪꞫꞬꞭꞮꞳ">>)

\* the cased characters that are not case-ignorable
CasedChars ==
  CharsIn(<<"ABCDEFGHIJKLMNOPQRSTUVWXYZabcdefghijklmnopqrstuvwxyzªµºÀÁÂÃÄ",
            "ÅÆÇÈÉÊËÌÍÎÏÐÑÒÓÔÕÖØÙÚÛÜÝÞßàáâãäåæçèéêëìíîïðñòóôõöøùúûüýþÿƀƁƂ",
            "ƃƄƅƆƇƈƉƊƋƌƍƎƏƐƑƒƓƔƕƖƗƘƙƚƛƜƝƞƟƠơƢƣƤƥƦƧƨƩƪƫƬƭƮƯưƱƲƳƴƵƶƷƸƹƺƼƽƾƿ",
            "ǄǅǆǇǈǉǊǋǌǍǎǏǐǑǒǓǔǕǖǗǘǙǚǛǜǝǞǟǠǡǢǣǤǥǦǧǨǩǪǫǬǭǮǯǰǱǲǳǴǵǶǷǸǹǺǻǼǽǾǿ",
            "ʀʁʂʃʄʅʆʇʈʉʊʋʌʍʎʏʐʑʒʓʕʖʗʘʙʚʛʜʝʞʟʠʡʢʣʤʥʦʧʨʩʪʫʬʭʮʯΆΈΉΊΌΎΏΐΑΒΓΔΕ",
            "ΖΗΘΙΚΛΜΝΞΟΠΡΣΤΥΦΧΨΩΪΫάέήίΰαβγδεζηθικλμνξοπρςστυφχψωϊϋόύώϏϐϑϒ",
            "ϓϔϕϖϗϘϙϚϛϜϝϞϟϠϡϢϣϤϥϦϧϨϩϪϫϬϭϮϯϰϱϲϳϴϵϷϸϹϺϻϼϽϾϿҀҁҊҋҌҍҎҏҐґҒғҔҕҖҗ",
            "ҘҙҚқҜҝҞҟҠҡҢңҤҥҦҧҨҩҪҫҬҭҮүҰұҲҳҴҵҶҷҸҹҺһҼҽҾҿӀӁӂӃӄӅӆӇӈӉӊӋӌӍӎӏӐӑӒӓ",
            "ӔӕӖӗӘәӚӛӜӝӞӟӠӡӢӣӤӥӦӧӨөӪӫӬӭӮӯӰӱӲӳӴӵӶӷӸӹӺӻӼӽӾӿրցւփքօֆևֈႠႡႢႣႤႥႦ",
            "ႧႨႩႪႫႬႭႮႯႰႱႲႳႴႵႶႷႸႹႺႻႼႽႾႿჀჁჂჃჄჅჇჍაბგდევზთიკლმნოპჟრსტუფქღყშჩც",
            "ძწჭხჯჰჱჲჳჴჵჶჷჸჹჺჽჾჿᎠᎡᎢᎣᎤᎥᎦᎧᎨᎩᎪᎫᎬᎭᎮᎯᎰᎱᎲᎳᎴᎵᎶᎷᎸᎹᎺᎻᎼᎽᎾᎿᏀᏁᏂᏃᏄᏅᏆᏇᏈ",
            "ᏉᏊᏋᏌᏍᏎᏏᏐᏑᏒᏓᏔᏕᏖᏗᏘᏙᏚᏛᏜᏝᏞᏟᏠᏡᏢᏣᏤᏥᏦᏧᏨᏩᏪᏫᏬᏭᏮᏯᏰᏱᏲᏳᏴᏵᏸᏹᏺᏻᏼᏽᲀᲁᲂᲃᲄᲅᲆᲇᲈ",
            "ᲐᲑᲒᲓᲔᲕᲖᲗᲘᲙᲚᲛᲜᲝᲞᲟᲠᲡᲢᲣᲤᲥᲦᲧᲨᲩᲪᲫᲬᲭᲮᲯᲰᲱᲲᲳᲴᲵᲶᲷᲸᲹᲺᲽᲾᲿᶀᶁᶂᶃᶄᶅᶆᶇᶈᶉᶊᶋᶌᶍ",
            "ᶎᶏᶐᶑᶒᶓᶔᶕᶖᶗᶘᶙᶚẀẁẂẃẄẅẆẇẈẉẊẋẌẍẎẏẐẑẒẓẔẕẖẗẘẙẚẛẜẝẞẟẠạẢảẤấẦầẨẩẪẫẬậẮ",
            "ắẰằẲẳẴẵẶặẸẹẺẻẼẽẾếỀềỂểỄễỆệỈỉỊịỌọỎỏỐốỒồỔổỖỗỘộỚớỜờỞởỠỡỢợỤụỦủỨứỪ",
            "ừỬửỮữỰựỲỳỴỵỶỷỸỹỺỻỼỽỾỿᾀᾁᾂᾃᾄᾅᾆᾇᾈᾉᾊᾋᾌᾍᾎᾏᾐᾑᾒᾓᾔᾕᾖᾗᾘᾙᾚᾛᾜᾝᾞᾟᾠᾡᾢᾣᾤᾥᾦ",
            "ᾧᾨᾩᾪᾫᾬᾭᾮᾯᾰᾱᾲᾳᾴᾶᾷᾸᾹᾺΆᾼιῂῃῄῆῇῈΈῊΉῌῐῑῒΐῖῗῘῙῚΊῠῡῢΰῤῥῦῧῨῩῪΎῬῲῳῴῶῷ",
            "ῸΌῺΏῼↃↄⒶⒷⒸⒹⒺⒻⒼⒽⒾⒿⓀⓁⓂⓃⓄⓅⓆⓇⓈⓉⓊⓋⓌⓍⓎⓏⓐⓑⓒⓓⓔⓕⓖⓗⓘⓙⓚⓛⓜⓝⓞⓟⓠⓡⓢⓣⓤⓥⓦⓧⓨⓩⲀ",
            "ⲁⲂⲃⲄⲅⲆⲇⲈⲉⲊⲋⲌⲍⲎⲏⲐⲑⲒⲓⲔⲕⲖⲗⲘⲙⲚⲛⲜⲝⲞⲟⲠⲡⲢⲣⲤⲥⲦⲧⲨⲩⲪⲫⲬⲭⲮⲯⲰⲱⲲⲳⲴⲵⲶⲷⲸⲹⲺⲻⲼ",
            "ⲽⲾⲿⳀⳁⳂⳃⳄⳅⳆⳇⳈⳉⳊⳋⳌⳍⳎⳏⳐⳑⳒⳓⳔⳕⳖⳗⳘⳙⳚⳛⳜⳝⳞⳟⳠⳡⳢⳣⳤⳫⳬⳭⳮⳲⳳꚀꚁꚂꚃꚄꚅꚆꚇꚈꚉꚊꚋꚌꚍ",
            "ꚎꚏꚐꚑꚒꚓꚔꚕꚖꚗꚘꚙꚚꚛꞀꞁꞂꞃꞄꞅꞆꞇꞋꞌꞍꞎꞐꞑꞒꞓꞔꞕꞖꞗꞘꞙꞚꞛꞜꞝꞞꞟꞠꞡꞢꞣꞤꞥꞦꞧꞨꞩꞪꞫꞬꞭꞮꞯꞰꞱ",
            "ꞲꞳꞴꞵꞶꞷꞸꞹꞺꞻꞼꞽꞾꞿꟀꟁꟂꟃꟄꟅꟆꟇꟈꟉꟊꟐꟑꟓꟕꟖꟗꟘꟙꟵꟶꟺꮀꮁꮂꮃꮄꮅꮆꮇꮈꮉꮊꮋꮌꮍꮎꮏꮐꮑꮒꮓꮔꮕꮖꮗ",
            "ꮘꮙꮚꮛꮜꮝꮞꮟꮠꮡꮢꮣꮤꮥꮦꮧꮨꮩꮪꮫꮬꮭꮮꮯꮰꮱꮲꮳꮴꮵꮶꮷꮸꮹꮺꮻꮼꮽꮾꮿ">>)

\* the case-ignorable characters
CaseIgnorable ==
  CharsIn(<<"'.:^¨­¯´·¸ʰʱʲʳʴʵʶʷʸʹʺʻʼʽʾʿˀˁ˂˃˄˅ˆˇˈˉˊˋˌˍˎˏːˑ˒˓˔˕˖˗˘˙˚˛˜˝˞˟ˠˡ",
            "ˢˣˤ˥˦˧˨˩˪˫ˬ˭ˮ˯˰˱˲˳˴˵˶˷˸˹˺˻˼˽˾˿΄΅·҃҄҅҆҇҈҉֑֖֛֢֣֤֚֒֓֔֕֗֘֙֜֝֞֟֠֡",
            "ְֱֲֳִֵֶַָׇֹֺֻּֽֿׁׂ֥֦֧֪ׅ֭֮֨֩֫֬֯ׄ״ۖۗۘۙۚۛۜ۝ۣ۟۠ۡۢۤۥۦ۪ۭۧۨ۫۬ަާިީުޫ",
            "ެޭޮޯް߲߫߬߭߮߯߰߱߳ߴߵߺ߽࢈࢐࢑࢙࢚࢛࢘࢜࢝࢞࢟ࣉ࣏࣐࣑࣒࣓࣊࣋࣌࣍࣎ࣔࣕࣖࣗࣘࣙࣚࣛࣜࣝࣞࣟ࣠࣡࣢ࣣࣦࣤࣥࣧ",
            "ࣰࣱࣲࣩ࣭࣮࣯ࣶࣹࣺࣨ࣪࣫࣬ࣳࣴࣵࣷࣸࣻࣼࣽࣾࣿঁ়ুূৃৄ্ৢৣ৾ઁં઼ુૂૃૄૅેૈ્ૢૣૺૻૼ૽૾૿ஂீ்ಁ಼ಿೆ",
            "ೌ್ೢೣඁ්ිීුූັິີຶື຺ຸູົຼໆ່້໊໋໌ໍ྄ཱྀྀྂྃ྆྇ྍྎྏྐྑྒྒྷྔྕྖྗྙྚྛྜྜྷྞྟྠྡྡྷྣྤྥྦྦྷ",
            "ྨྩྪྫྫྷྭྮྯྰྱྲླྴྵྶྷྸྐྵྺྻྼ࿆ႂႅႆႍႝჼ឴឵ិីឹឺុូួំ៉៊់៌៍៎៏័៑្៓ៗ៝ᢅᢆᢩᪧ᪰᪱᪲᪳᪴",
            "᪵᪶᪷᪸᪹᪺᪽᪻᪼᪾ᪿᫀ᫃᫄᫊᫁᫂᫅᫆᫇᫈᫉᫋ᫌᫍᫎᮀᮁᮢᮣᮤᮥᮨᮩ᮫ᮬᮭ᯦ᯨᯩᯭᯯᯰᯱ᳔᳕᳖᳗᳘᳙᳜᳝᳞᳟᳐᳑᳒᳚᳛᳠",
            "᳢᳣᳤᳥᳦᳧᳨᳭᳴᳸᳹ᶛᶜᶝᶞᶟᶠᶡᶢᶣᶤᶥᶦᶧᶨᶩᶪᶫᶬᶭᶮᶯᶰᶱᶲᶳᶴᶵᶶᶷᶸᶹᶺᶻᶼᶽᶾᶿ᷂᷊᷀᷁᷃᷄᷅᷆᷇᷈᷉᷋",
            "᷐᷎᷺᷏᷹᷽᷿᷷᷸᷌᷑᷒ᷓᷔᷕᷖᷗᷘᷙᷚᷛᷜᷝᷞᷟᷠᷡᷢᷣᷤᷥᷦᷧᷨᷩᷪᷫᷬᷭᷮᷯᷰᷱᷲᷳᷴ᷵᷻᷾᷶᷼᷍᾽᾿῀῁῍῎῏῝",
            "῞῟῭΅`´῾ₐₑₒₓₔₕₖₗₘₙₚₛₜ⃒⃓⃘⃙⃚⃐⃑⃔⃕⃖⃗⃛⃜⃝⃞⃟⃠⃡⃢⃣⃤⃥⃦⃪⃫⃨⃬⃭⃮⃯⃧⃩⃰⳯⳰⳱ⷠⷡⷢⷣ",
            "゙゚ⷤⷥⷦⷧⷨⷩⷪⷫⷬⷭⷮⷯⷰⷱⷲⷳⷴⷵⷶⷷⷸⷹⷺⷻⷼⷽⷾⷿ゛゜ゝゞーヽヾꓸꓹꓺꓻꓼꓽꚜꚝꚞꚟ꛰꛱ꞈ꞉꞊ꟲꟳꟴꟸꟹ꣄ꣅ꣠",
            "꣡꣢꣣꣤꣥꣦꣧꣨꣩꣪꣫꣬꣭꣮꣯꣰꣱ꣿꦀꦁꦂ꦳ꦶꦷꦸꦹꦼꦽꧏꧥꧦꪴꪰꪲꪳꪷꪸꪾ꪿꫁ꫝꫬꫭꫳꫴ꫶ꯥꯨ꯭﮲﮳﮴﮵﮶﮷﮸﮹﮺﮻﮼",
            "﮽﮾﮿﯀﯁﯂﻿ﾞﾟ￣￹￺￻">>)

\* the printable ASCII characters in code point order: 32 (space) to 95 ...
AsciiLow == " !\"#$%&'()*+,-./0123456789:;<=>?@ABCDEFGHIJKLMNOPQRSTUVWXYZ[\\]^_"

\* ... and 97 to 126
AsciiHigh == "abcdefghijklmnopqrstuvwxyz{|}~"

\* s.startswith(p)
startswith(s, p) == Len(p) <= Len(s) /\ Slice(s, 1, Len(p)) = p

\* s.endswith(p)
endswith(s, p) == Len(p) <= Len(s) /\ Slice(s, Len(s) - Len(p) + 1, Len(s)) = p

\* whether sub occurs in s at index i
MatchAt(s, i, sub) == i >= 1 /\ i + Len(sub) - 1 <= Len(s) /\ Slice(s, i, i + Len(sub) - 1) = sub

\* s.find(sub, i - 1) + 1: the first index from i on where sub occurs, 0 when
\* it does not
FindFrom(s, sub, i) ==
  LET hits == {j \in i..(Len(s) - Len(sub) + 1) : MatchAt(s, j, sub)}
  IN IF hits = {} THEN 0 ELSE MinOf(hits)

\* s.find(sub) + 1
Find(s, sub) == FindFrom(s, sub, 1)

\* sub in s
Contains(s, sub) == Find(s, sub) # 0

RECURSIVE RunEnd(_, _, _)
\* the last index of the maximal run of characters of class cls that starts
\* at i; i - 1 when s[i] is not in cls
RunEnd(s, i, cls) ==
  IF i > Len(s) \/ Char(s, i) \notin cls THEN i - 1 ELSE RunEnd(s, i + 1, cls)

RECURSIVE RunStart(_, _, _)
\* the first index of the maximal run of characters of class cls that ends
\* at i; i + 1 when s[i] is not in cls
RunStart(s, i, cls) ==
  IF i < 1 \/ Char(s, i) \notin cls THEN i + 1 ELSE RunStart(s, i - 1, cls)

\* s.lstrip()
lstrip(s) == Slice(s, RunEnd(s, 1, Whitespace) + 1, Len(s))

\* s.rstrip()
rstrip(s) == Slice(s, 1, RunStart(s, Len(s), Whitespace) - 1)

\* s.strip()
strip(s) == lstrip(rstrip(s))

\* s.rstrip(c) for a one-character c
rstripChar(s, c) ==
  LET keep == {i \in 1..Len(s) : Char(s, i) # c}
  IN IF keep = {} THEN "" ELSE Slice(s, 1, MaxOf(keep))

\* s.strip(c) for a one-character c
stripChar(s, c) ==
  LET keep == {i \in 1..Len(s) : Char(s, i) # c}
  IN IF keep = {} THEN "" ELSE Slice(s, MinOf(keep), MaxOf(keep))

\* the characters that str.lower() changes into one character a string can
\* hold, each with that character
LowerMap ==
  LET from == UpperAlphabet \o OtherUppers
      to == LowerAlphabet \o OtherLowers
  IN [c \in {Char(from, i) : i \in 1..Len(from)} |->
        Char(to, CHOOSE i \in 1..Len(from) : Char(from, i) = c)]

\* c.lower() for one character other than U+03A3; no value for a character
\* of LowerUnheld
LowerChar(c) ==
  IF c \in DOMAIN LowerMap THEN LowerMap[c]
  ELSE IF c \in LowerUnheld THEN CHOOSE held \in {} : TRUE
  ELSE c

\* whether the U+03A3 at index i of s is in the Final_Sigma context: the
\* nearest character before it that is not case-ignorable is cased, and the
\* nearest one after it, if any, is not
FinalSigma(s, i) ==
  LET before == {j \in 1..(i - 1) : Char(s, j) \notin CaseIgnorable}
      after == {j \in (i + 1)..Len(s) : Char(s, j) \notin CaseIgnorable}
  IN /\ before # {}
     /\ Char(s, MaxOf(before)) \in CasedChars
     /\ (after = {} \/ Char(s, MinOf(after)) \notin CasedChars)

RECURSIVE LowerFrom(_, _, _)
\* s.lower() for the characters of s from index a to index b
LowerFrom(s, a, b) ==
  IF a > b THEN ""
  ELSE IF a = b
    THEN (IF Char(s, a) = "Σ" THEN (IF FinalSigma(s, a) THEN "ς" ELSE "σ")
          ELSE LowerChar(Char(s, a)))
  ELSE LET m == (a + b) \div 2
       IN LowerFrom(s, a, m) \o LowerFrom(s, m + 1, b)

\* s.lower()
lower(s) == LowerFrom(s, 1, Len(s))

\* the first index from i on that holds a character of class cls, 0 when none
\* does
FindIn(s, i, cls) ==
  LET hits == {j \in i..Len(s) : Char(s, j) \in cls}
  IN IF hits = {} THEN 0 ELSE MinOf(hits)

RECURSIVE splitlines(_)
\* s.splitlines(): a line ends at each line boundary, "\r\n" being one; no
\* empty last line after a final boundary
splitlines(s) ==
  IF s = "" THEN <<>>
  ELSE LET k == FindIn(s, 1, LineBoundaries)
           n == IF Char(s, k) = "\r" /\ Char(s, k + 1) = "\n" THEN k + 2 ELSE k + 1
       IN IF k = 0 THEN <<s>>
          ELSE <<Slice(s, 1, k - 1)>> \o splitlines(Slice(s, n, Len(s)))

\* the first index from i on that holds whitespace, 0 when none does
FindWhitespace(s, i) == FindIn(s, i, Whitespace)

RECURSIVE split(_)
\* s.split(): the maximal runs of non-whitespace characters
split(s) ==
  LET t == lstrip(s)
  IN IF t = "" THEN <<>>
     ELSE LET e == IF FindWhitespace(t, 1) = 0 THEN Len(t) + 1 ELSE FindWhitespace(t, 1)
          IN <<Slice(t, 1, e - 1)>> \o split(Slice(t, e, Len(t)))

RECURSIVE splitOn(_, _, _)
\* s.split(sep, maxsplit); maxsplit = -1 splits at every occurrence
splitOn(s, sep, maxsplit) ==
  LET k == Find(s, sep)
  IN IF maxsplit = 0 \/ k = 0 THEN <<s>>
     ELSE <<Slice(s, 1, k - 1)>>
          \o splitOn(Slice(s, k + Len(sep), Len(s)), sep,
                     IF maxsplit < 0 THEN maxsplit ELSE maxsplit - 1)

\* the code point of each printable ASCII character
OrdMap ==
  [c \in {Char(AsciiLow, i) : i \in 1..Len(AsciiLow)}
          \cup {Char(AsciiHigh, i) : i \in 1..Len(AsciiHigh)} |->
     IF Find(AsciiLow, c) # 0 THEN 31 + Find(AsciiLow, c) ELSE 96 + Find(AsciiHigh, c)]

\* ord(c) for a printable ASCII character
Ord(c) == OrdMap[c]

\* the str written s, of printable ASCII characters, as the sequence of its
\* code points
CodePoints(s) == [i \in 1..Len(s) |-> Ord(Char(s, i))]

\* a < b on str, each the sequence of its code points: by the code points at
\* the first index where they differ, a proper prefix first
StrLess(a, b) ==
  LET differ == {i \in 1..(IF Len(a) < Len(b) THEN Len(a) ELSE Len(b)) : a[i] # b[i]}
  IN IF differ = {} THEN Len(a) < Len(b)
     ELSE a[MinOf(differ)] < b[MinOf(differ)]

(***************************************************************************)
(* run_command                                                             *)
(***************************************************************************)
RECURSIVE UniversalNewlines(_)
\* what a text stream opened with newline=None gives for s: "\r\n" and "\r"
\* read as "\n"
UniversalNewlines(s) ==
  LET k == FindIn(s, 1, {"\r"})
  IN IF k = 0 THEN s
     ELSE Slice(s, 1, k - 1) \o "\n"
          \o UniversalNewlines(Slice(s, IF Char(s, k + 1) = "\n" THEN k + 2 ELSE k + 1, Len(s)))

\* check_output(..., universal_newlines=True).strip() of a command that wrote
\* the text raw to its standard output; a command that fails, or whose output
\* does not decode, printed nothing the caller sees
run_command(raw) == strip(UniversalNewlines(raw))

(***************************************************************************)
(* parse_ip_config_windows                                                 *)
(***************************************************************************)
\* the body of the else branch (lines 197-211): one "key : value" line
WindowsKeyValue(adapter, line) ==
  LET parts == splitOn(line, ":", 1)
  IN IF Len(parts) # 2 THEN adapter
     ELSE LET key == strip(parts[1])
              value == strip(parts[2])
              key_lower == lower(key)
              ip == strip(splitOn(value, "(", -1)[1])
          IN IF Contains(key_lower, "physical address")
               THEN DictSetDefault(adapter, "mac", value)
             ELSE IF key_lower \in {"ipv4 address", "ip address",
                                    "autoconfiguration ipv4 address"}
               THEN DictAppend(adapter, "ipv4", ip)
             ELSE IF Contains(key_lower, "ipv6 address")
               THEN DictAppend(adapter, "ipv6", ip)
             ELSE adapter

\* the append of a non-empty adapter (if adapter: interfaces.append(adapter))
Flush(interfaces, adapter) ==
  IF DOMAIN adapter # {} THEN Append(interfaces, adapter) ELSE interfaces

RECURSIVE WindowsLoop(_, _, _, _)
\* the for loop over output.splitlines() and the append after it
WindowsLoop(lines, i, interfaces, adapter) ==
  IF i > Len(lines) THEN Flush(interfaces, adapter)
  ELSE LET line == lines[i]
       IN IF strip(line) = ""
            THEN WindowsLoop(lines, i + 1, Flush(interfaces, adapter), EmptyDict)
          ELSE IF lstrip(line) = line /\ endswith(strip(line), ":")
            THEN WindowsLoop(lines, i + 1, Flush(interfaces, adapter),
                             DictSet(EmptyDict, "name", rstripChar(strip(line), ":")))
          ELSE WindowsLoop(lines, i + 1, interfaces, WindowsKeyValue(adapter, line))

\* parse_ip_config_windows without the early return and with the adapter in
\* hand appended after the loop whether or not it holds anything
parse_ip_config_windows_AppendsLast(e) ==
  LET output == run_command(e["ipconfig /all"])
  IN Append(WindowsLoop(splitlines(output), 1, <<>>, EmptyDict), EmptyDict)

parse_ip_config_windows(e) ==
  LET output == run_command(e["ipconfig /all"])
  IN IF output = "" THEN <<>>
     ELSE WindowsLoop(splitlines(output), 1, <<>>, EmptyDict)

(***************************************************************************)
(* parse_ip_config_posix                                                   *)
(***************************************************************************)
AllIn(s, cls) == \A j \in 1..Len(s) : Char(s, j) \in cls

\* [0-9a-f:]{17} under re.IGNORECASE
MacColonForm(g) == Len(g) = 17 /\ AllIn(g, HexAny \cup {":"})

\* [0-9a-f]{2}(?:-[0-9a-f]{2}){5} under re.IGNORECASE
MacDashForm(g) ==
  /\ Len(g) = 17
  /\ \A j \in 1..17 : IF j % 3 = 0 THEN Char(g, j) = "-" ELSE Char(g, j) \in HexAny

\* the literal link/ of line 251 under re.IGNORECASE. (In the code U+0130 and
\* U+0131 also match its "i" and U+212A its "k"; no string here holds them.)
LinkIgnoreCase(t) ==
  /\ Len(t) = 5
  /\ Char(t, 1) \in {"l", "L"}
  /\ Char(t, 2) \in {"i", "I"}
  /\ Char(t, 3) \in {"n", "N"}
  /\ Char(t, 4) \in {"k", "K"}
  /\ Char(t, 5) = "/"

\* group(1) of the match of the pattern of line 251 that starts at p, or "":
\* link/ , \w+ (the whole run of word characters, a space must follow), the MAC
LinkMacAt(line, p) ==
  LET e == RunEnd(line, p + 5, WordChars)
      g == Slice(line, e + 2, e + 18)
  IN IF /\ LinkIgnoreCase(Slice(line, p, p + 4))
        /\ e >= p + 5
        /\ Char(line, e + 1) = " "
        /\ (MacColonForm(g) \/ MacDashForm(g))
     THEN g ELSE ""

\* re.search of line 251: None, or Some(group(1)) of the leftmost match
LinkMacSearch(line) ==
  LET hits == {p \in 1..Len(line) : LinkMacAt(line, p) # ""}
  IN IF hits = {} THEN None ELSE Some(LinkMacAt(line, MinOf(hits)))

\* the index in iface_map (a dict, kept in insertion order) of key ifname, or 0
IfaceIndex(iface_map, ifname) ==
  LET hits == {k \in 1..Len(iface_map) : iface_map[k].name = ifname}
  IN IF hits = {} THEN 0 ELSE MinOf(hits)

\* IfaceSetDefault adding an entry for every line, known name or not
IfaceSetDefaultAlwaysAdds(iface_map, ifname) ==
  Append(iface_map, DictSet(EmptyDict, "name", ifname))

\* IfaceSetDefault putting a new entry before the ones the map has
IfaceSetDefaultPrepends(iface_map, ifname) ==
  IF IfaceIndex(iface_map, ifname) # 0 THEN iface_map
  ELSE <<DictSet(EmptyDict, "name", ifname)>> \o iface_map

\* iface_map.setdefault(ifname, {"name": ifname}), as the map it leaves
IfaceSetDefault(iface_map, ifname) ==
  IF IfaceIndex(iface_map, ifname) # 0 THEN iface_map
  ELSE Append(iface_map, DictSet(EmptyDict, "name", ifname))

\* LinuxFamily keeping the first MAC (setdefault in place of the assignment)
LinuxFamilyFirstMac(iface, family, ip, line) ==
  IF family = "link"
    THEN LET mac_match == LinkMacSearch(line)
         IN IF mac_match # None THEN DictSetDefault(iface, "mac", mac_match[1]) ELSE iface
  ELSE IF family = "inet" THEN DictAppend(iface, "ipv4", ip)
  ELSE IF family = "inet6" THEN DictAppend(iface, "ipv6", ip)
  ELSE iface

\* lines 248-257: what one line of family `family` does to its interface
LinuxFamily(iface, family, ip, line) ==
  IF family = "link"
    THEN LET mac_match == LinkMacSearch(line)
         IN IF mac_match # None THEN DictSet(iface, "mac", mac_match[1]) ELSE iface
  ELSE IF family = "inet" THEN DictAppend(iface, "ipv4", ip)
  ELSE IF family = "inet6" THEN DictAppend(iface, "ipv6", ip)
  ELSE iface

\* lines 239-257: one line of `ip -o addr show`
LinuxLine(iface_map, line) ==
  LET parts == split(line)
  IN IF Len(parts) < 4 THEN iface_map
     ELSE LET ifname == parts[2]
              family == parts[3]
              addr_mask == parts[4]
              ip == splitOn(addr_mask, "/", -1)[1]
              m == IfaceSetDefault(iface_map, ifname)
              k == IfaceIndex(m, ifname)
          IN [m EXCEPT ![k] = LinuxFamily(m[k], family, ip, line)]

RECURSIVE LinuxLoop(_, _, _)
\* the for loop of line 238; the result is list(iface_map.values())
LinuxLoop(lines, i, iface_map) ==
  IF i > Len(lines) THEN iface_map
  ELSE LinuxLoop(lines, i + 1, LinuxLine(iface_map, lines[i]))

\* re.match(r"^(\S+):", line): None, or Some(group(1)); \S+ is greedy, so the
\* name ends before the last colon of the leading run of non-whitespace
BsdNameMatch(line) ==
  LET e == IF FindWhitespace(line, 1) = 0 THEN Len(line) ELSE FindWhitespace(line, 1) - 1
      colons == {j \in 2..e : Char(line, j) = ":"}
  IN IF colons = {} THEN None ELSE Some(Slice(line, 1, MaxOf(colons) - 1))

\* re.search(r"ether ([0-9a-f:]{17})", line): None, or Some(group(1))
EtherSearch(line) ==
  LET hits == {p \in 1..Len(line) :
                 /\ MatchAt(line, p, "ether ")
                 /\ p + 22 <= Len(line)
                 /\ AllIn(Slice(line, p + 6, p + 22), HexLowerColon)}
  IN IF hits = {} THEN None
     ELSE Some(Slice(line, MinOf(hits) + 6, MinOf(hits) + 22))

\* the end of \d+\.\d+\.\d+\.\d+ matched from index i, or 0: each \d+ is a whole
\* run of digits, the first three followed by a dot
DottedQuadEnd(s, i) ==
  LET e1 == RunEnd(s, i, Digits)
      e2 == RunEnd(s, e1 + 2, Digits)
      e3 == RunEnd(s, e2 + 2, Digits)
      e4 == RunEnd(s, e3 + 2, Digits)
  IN IF /\ e1 >= i /\ Char(s, e1 + 1) = "."
        /\ e2 >= e1 + 2 /\ Char(s, e2 + 1) = "."
        /\ e3 >= e2 + 2 /\ Char(s, e3 + 1) = "."
        /\ e4 >= e3 + 2
     THEN e4 ELSE 0

\* re.search(r"inet (\d+\.\d+\.\d+\.\d+)", line): None, or Some(group(1))
InetSearch(line) ==
  LET hits == {p \in 1..Len(line) :
                 MatchAt(line, p, "inet ") /\ DottedQuadEnd(line, p + 5) # 0}
  IN IF hits = {} THEN None
     ELSE Some(Slice(line, MinOf(hits) + 5, DottedQuadEnd(line, MinOf(hits) + 5)))

\* re.search(r"inet6 ([0-9a-f:]+)", line): None, or Some(group(1))
Inet6Search(line) ==
  LET hits == {p \in 1..Len(line) :
                 MatchAt(line, p, "inet6 ") /\ RunEnd(line, p + 6, HexLowerColon) >= p + 6}
  IN IF hits = {} THEN None
     ELSE Some(Slice(line, MinOf(hits) + 6, RunEnd(line, MinOf(hits) + 6, HexLowerColon)))

\* lines 269-275: the name and the inline MAC of a header line
BsdHeader(line) ==
  LET m == BsdNameMatch(line)
      m2 == EtherSearch(line)
      named == IF m # None THEN DictSet(EmptyDict, "name", m[1]) ELSE EmptyDict
  IN IF m2 # None THEN DictSet(named, "mac", m2[1]) ELSE named

\* BsdIndented keeping the first MAC (setdefault in place of the assignment)
BsdIndentedFirstMac(adapter, line) ==
  LET m4 == InetSearch(line)
      m6 == Inet6Search(line)
      mmac == EtherSearch(line)
      a4 == IF m4 # None THEN DictAppend(adapter, "ipv4", m4[1]) ELSE adapter
      a6 == IF m6 # None THEN DictAppend(a4, "ipv6", m6[1]) ELSE a4
  IN IF mmac # None THEN DictSetDefault(a6, "mac", mmac[1]) ELSE a6

\* lines 278-286: a line that starts with a tab
BsdIndented(adapter, line) ==
  LET m4 == InetSearch(line)
      m6 == Inet6Search(line)
      mmac == EtherSearch(line)
      a4 == IF m4 # None THEN DictAppend(adapter, "ipv4", m4[1]) ELSE adapter
      a6 == IF m6 # None THEN DictAppend(a4, "ipv6", m6[1]) ELSE a4
  IN IF mmac # None THEN DictSet(a6, "mac", mmac[1]) ELSE a6

RECURSIVE BsdLoop(_, _, _, _)
\* the for loop of line 262 and the append after it
BsdLoop(lines, i, interfaces, adapter) ==
  IF i > Len(lines) THEN Flush(interfaces, adapter)
  ELSE LET line == lines[i]
       IN IF ~startswith(line, "\t")
            THEN BsdLoop(lines, i + 1, Flush(interfaces, adapter), BsdHeader(line))
          ELSE BsdLoop(lines, i + 1, interfaces, BsdIndented(adapter, line))

\* the command parse_ip_config_posix runs on platform sys
PosixNetCommand(sys) == IF sys = "linux" THEN "ip -o addr show" ELSE "ifconfig -a"

parse_ip_config_posix(sys, e) ==
  LET output == run_command(e[PosixNetCommand(sys)])
  IN IF output = "" THEN <<>>
     ELSE IF sys = "linux" THEN LinuxLoop(splitlines(output), 1, <<>>)
     ELSE BsdLoop(splitlines(output), 1, <<>>, EmptyDict)

(***************************************************************************)
(* get_domain_name                                                         *)
(***************************************************************************)
DomainCommands == <<"hostname -d", "dnsdomainname", "domainname">>

\* DomainAccepted comparing with the sentinels without lower()
DomainAcceptedCaseSensitive(output) == output # "" /\ output \notin {"(none)", "unknown"}

\* line 126: the output is accepted
DomainAccepted(output) == output # "" /\ lower(output) \notin {"(none)", "unknown"}

RECURSIVE DomainCascade(_, _, _)
\* the for loop of lines 124-128 from command i on, `done` being the commands
\* already run: the domain found and every command run
DomainCascade(e, i, done) ==
  IF i > Len(DomainCommands) THEN [domain |-> None, ran |-> done]
  ELSE LET output == run_command(e[DomainCommands[i]])
       IN IF DomainAccepted(output)
            THEN [domain |-> Some(strip(output)), ran |-> Append(done, DomainCommands[i])]
          ELSE DomainCascade(e, i + 1, Append(done, DomainCommands[i]))

\* lines 112-121; os.environ is the part of e under "USERDOMAIN", when set
WindowsDomain(e) ==
  LET output == run_command(e["wmic computersystem get domain"])
      all == splitlines(output)
      lines == [k \in 1..Cardinality({j \in 1..Len(all) : strip(all[j]) # ""}) |->
                  strip(all[CHOOSE j \in 1..Len(all) :
                    /\ strip(all[j]) # ""
                    /\ Cardinality({h \in 1..j : strip(all[h]) # ""}) = k])]
      domain == IF Len(lines) >= 2 THEN Some(lines[Len(lines)]) ELSE None
  IN [domain |-> IF domain # None THEN domain
                 ELSE IF "USERDOMAIN" \in DOMAIN e THEN Some(e["USERDOMAIN"]) ELSE None,
      ran |-> <<"wmic computersystem get domain">>]

get_domain_name(sys, e) ==
  IF sys = "windows" THEN WindowsDomain(e) ELSE DomainCascade(e, 1, <<>>)

(***************************************************************************)
(* get_disk_info                                                           *)
(***************************************************************************)
DigitString == "0123456789"

\* int(c) for one decimal digit c
DigitValue(c) ==
  IF c \in AsciiDigits THEN Find(DigitString, c) - 1
  ELSE ((CHOOSE i \in 1..Len(DecimalDigits) : Char(DecimalDigits, i) = c) - 1) % 10

RECURSIVE DigitsValue(_, _)
\* the value of the decimal digits of s (underscores skipped), after acc
DigitsValue(s, acc) ==
  IF s = "" THEN acc
  ELSE IF Char(s, 1) = "_" THEN DigitsValue(Slice(s, 2, Len(s)), acc)
  ELSE DigitsValue(Slice(s, 2, Len(s)), 10 * acc + DigitValue(Char(s, 1)))

\* sys.get_int_max_str_digits(): the most digits int() converts
MaxStrDigits == 4300

\* int(s): Some(n), or None for the ValueError. Whitespace around, one sign,
\* then decimal digits of any script, single underscores between digits
\* allowed, at most MaxStrDigits digits
ParseInt(s) ==
  LET t == Slice(s, RunEnd(s, 1, IntWhitespace) + 1, RunStart(s, Len(s), IntWhitespace) - 1)
      signed == Char(t, 1) \in {"+", "-"}
      body == IF signed THEN Slice(t, 2, Len(t)) ELSE t
      ok == /\ body # ""
            /\ AllIn(body, Digits \cup {"_"})
            /\ Char(body, 1) # "_"
            /\ Char(body, Len(body)) # "_"
            /\ ~Contains(body, "__")
            /\ Cardinality({j \in 1..Len(body) : Char(body, j) # "_"}) <= MaxStrDigits
  IN IF ~ok THEN None
     ELSE Some(IF Char(t, 1) = "-" THEN 0 - DigitsValue(body, 0) ELSE DigitsValue(body, 0))

\* lines 462-487: the record of one line of the wmic csv, if it makes one
WindowsDiskRow(disks, line) ==
  LET parts == splitOn(line, ",", -1)
      free == IF parts[4] # "" THEN ParseInt(parts[4]) ELSE None
      size == IF parts[5] # "" THEN ParseInt(parts[5]) ELSE None
  IN IF Len(parts) < 5 THEN disks
     ELSE Append(disks,
            [name |-> parts[2],
             filesystem |-> IF parts[3] # "" THEN Some(parts[3]) ELSE None,
             total |-> size,
             free |-> free,
             used |-> IF size # None /\ free # None THEN Some(size[1] - free[1]) ELSE None])

RECURSIVE WindowsDiskLoop(_, _, _)
\* the for loop of line 459
WindowsDiskLoop(lines, i, disks) ==
  IF i > Len(lines) THEN disks
  ELSE IF lines[i] = "" \/ startswith(lines[i], "Node")
    THEN WindowsDiskLoop(lines, i + 1, disks)
  ELSE WindowsDiskLoop(lines, i + 1, WindowsDiskRow(disks, lines[i]))

\* PosixDiskRow recording a short row with the fields it has
PosixDiskRowPartial(disks, line) ==
  LET parts == split(line)
  IN IF Len(parts) < 1 THEN disks
     ELSE Append(disks,
            [name |-> IF Len(parts) >= 6 THEN parts[6] ELSE "",
             filesystem |-> parts[1],
             total |-> IF Len(parts) >= 2 THEN ParseInt(parts[2]) ELSE None,
             free |-> IF Len(parts) >= 4 THEN ParseInt(parts[4]) ELSE None,
             used |-> IF Len(parts) >= 3 THEN ParseInt(parts[3]) ELSE None])

\* lines 495-520: the record of one row of df, if it makes one
PosixDiskRow(disks, line) ==
  LET parts == split(line)
  IN IF Len(parts) < 6 THEN disks
     ELSE Append(disks,
            [name |-> parts[6],
             filesystem |-> parts[1],
             total |-> ParseInt(parts[2]),
             free |-> ParseInt(parts[4]),
             used |-> ParseInt(parts[3])])

RECURSIVE PosixDiskLoop(_, _, _)
\* the for loop of line 494, entered at the second line (lines[1:])
PosixDiskLoop(lines, i, disks) ==
  IF i > Len(lines) THEN disks
  ELSE PosixDiskLoop(lines, i + 1, PosixDiskRow(disks, lines[i]))

\* the command get_disk_info runs on platform sys
DiskCommand(sys) ==
  IF sys = "windows"
    THEN "wmic logicaldisk get Caption,FileSystem,FreeSpace,Size /Format:csv"
  ELSE "df -P -B1"

get_disk_info(sys, e) ==
  LET output == run_command(e[DiskCommand(sys)])
  IN IF output = "" THEN <<>>
     ELSE IF sys = "windows" THEN WindowsDiskLoop(splitlines(output), 1, <<>>)
     ELSE PosixDiskLoop(splitlines(output), 2, <<>>)

(***************************************************************************)
(* SECURITY_PROCESSES, get_running_process_names, detect_security_tools     *)
(***************************************************************************)
\* The dict literal of lines 525-599; a key written twice there has the same
\* value both times. A product name is held as the sequence of the code points
\* of its str: the name of line 579 has the hyphen U+2011 (8209), not "-".
SECURITY_PROCESSES ==
  [csfalconservice |-> CodePoints("CrowdStrike Falcon"),
   cbcomms |-> CodePoints("CrowdStrike Falcon Insight XDR"),
   crowdstrike |-> CodePoints("CrowdStrike Falcon"),
   carbonsensor |-> CodePoints("VMware Carbon Black EDR"),
   cpx |-> CodePoints("SentinelOne Singularity XDR"),
   cybereason |-> CodePoints("Cybereason EDR"),
   tanclient |-> CodePoints("Tanium EDR"),
   xagt |-> CodePoints("FireEye HX"),
   trapsagent |-> CodePoints("Palo Alto Networks Cortex XDR"),
   trapsd |-> CodePoints("Palo Alto Networks Cortex XDR"),
   msmpeng |-> CodePoints("Microsoft Defender"),
   msascuil |-> CodePoints("Microsoft Defender"),
   windefend |-> CodePoints("Microsoft Defender"),
   sysmon |-> CodePoints("Microsoft Sysmon"),
   ccsvchst |-> CodePoints("Symantec Endpoint Protection"),
   rtvscan |-> CodePoints("Symantec Endpoint Protection"),
   edpa |-> CodePoints("McAfee Endpoint Security"),
   shstat |-> CodePoints("McAfee VirusScan"),
   mcshield |-> CodePoints("McAfee VirusScan"),
   mfefire |-> CodePoints("McAfee Host Intrusion Prevention"),
   dlpsensor |-> CodePoints("McAfee DLP Sensor"),
   bdagent |-> CodePoints("Bitdefender"),
   vsserv |-> CodePoints("Bitdefender"),
   savservice |-> CodePoints("Sophos Endpoint Security"),
   sophosav |-> CodePoints("Sophos Endpoint Security"),
   sophossps |-> CodePoints("Sophos Endpoint Security"),
   sophosui |-> CodePoints("Sophos Endpoint Security"),
   pavfnsvr |-> CodePoints("Panda Security"),
   pavsrv |-> CodePoints("Panda Security"),
   psanhost |-> CodePoints("Panda Security"),
   panda_url_filtering |-> CodePoints("Panda Security"),
   cpd |-> CodePoints("Check Point Daemon"),
   fw |-> CodePoints("Check Point Firewall"),
   fortiedr |-> CodePoints("Fortinet FortiEDR"),
   egui |-> CodePoints("ESET NOD32"),
   ekrn |-> CodePoints("ESET NOD32"),
   avp |-> CodePoints("Kaspersky Anti") \o <<8209>> \o CodePoints("Virus"),
   avastsvc |-> CodePoints("Avast"),
   avastui |-> CodePoints("Avast"),
   avgnt |-> CodePoints("Avira"),
   avguard |-> CodePoints("Avira"),
   mbamservice |-> CodePoints("Malwarebytes"),
   mbamtray |-> CodePoints("Malwarebytes"),
   firesvc |-> CodePoints("FireEye Endpoint Agent"),
   firetray |-> CodePoints("FireEye Endpoint Agent"),
   dlpagent |-> CodePoints("Symantec DLP Agent"),
   wrsa |-> CodePoints("Webroot SecureAnywhere"),
   truecrypt |-> CodePoints("TrueCrypt (encryption tool)")]
  @@ ("cb.exe" :> CodePoints("Carbon Black EDR"))

\* the command get_running_process_names runs on platform sys
ProcessCommand(sys) == IF sys = "windows" THEN "tasklist /fo csv /nh" ELSE "ps -eo comm"

\* lines 613-619: the name of the process of one line of tasklist
TasklistName(line) ==
  LET exe == lower(stripChar(splitOn(line, ",", -1)[1], "\""))
  IN IF endswith(exe, ".exe") THEN Slice(exe, 1, Len(exe) - 4) ELSE exe

\* os.path.basename(p): what follows the last "/"
basename(p) ==
  LET slashes == {j \in 1..Len(p) : Char(p, j) = "/"}
  IN IF slashes = {} THEN p ELSE Slice(p, MaxOf(slashes) + 1, Len(p))

RECURSIVE ProcessLoop(_, _, _, _)
\* the for loops of lines 609 and 623
ProcessLoop(sys, lines, i, processes) ==
  IF i > Len(lines) THEN processes
  ELSE IF sys = "windows"
    THEN ProcessLoop(sys, lines, i + 1,
                     IF lines[i] = "" THEN processes
                     ELSE Append(processes, TasklistName(lines[i])))
  ELSE ProcessLoop(sys, lines, i + 1,
                   Append(processes, lower(basename(strip(lines[i])))))

get_running_process_names(sys, e) ==
  LET output == run_command(e[ProcessCommand(sys)])
  IN ProcessLoop(sys, splitlines(output), IF sys = "windows" THEN 1 ELSE 2, <<>>)

\* proc in SECURITY_PROCESSES
IsSecurityProcess(proc) == proc \in DOMAIN SECURITY_PROCESSES

RECURSIVE DetectLoop(_, _, _)
\* the for loop of lines 639-641
DetectLoop(running, i, detected) ==
  IF i > Len(running) THEN detected
  ELSE DetectLoop(running, i + 1,
                  IF IsSecurityProcess(running[i])
                    THEN detected \cup {SECURITY_PROCESSES[running[i]]}
                  ELSE detected)

\* FirstSorted taking the greatest element: a descending sort
LastSorted(S) == CHOOSE a \in S : \A b \in S \ {a} : StrLess(b, a)

\* the element sorted() puts first
FirstSorted(S) == CHOOSE a \in S : \A b \in S \ {a} : StrLess(a, b)

RECURSIVE sorted(_)
\* sorted(S) of a set of str, each the sequence of its code points
sorted(S) ==
  IF S = {} THEN <<>> ELSE <<FirstSorted(S)>> \o sorted(S \ {FirstSorted(S)})

detect_security_tools(sys, e) ==
  sorted(DetectLoop(get_running_process_names(sys, e), 1, {}))

(***************************************************************************)
(* Exceptions and the external sources                                     *)
(***************************************************************************)
\* a call that returned v
Return(v) == [value |-> v]

\* a call that an exception of class cls left
Raised(cls) == [raised |-> cls]

IsRaised(outcome) == "raised" \in DOMAIN outcome

\* run_command(cmd) where the commands print what e says; a command e does
\* not have fails, and run_command returns "" for it (line 65)
Output(e, cmd) == IF cmd \in DOMAIN e THEN run_command(e[cmd]) ELSE ""

\* what reading the file at path gives: it is opened in text mode, which
\* reads "\r\n" and "\r" as "\n"
ReadText(e, path) == UniversalNewlines(e[path])

RECURSIVE readlines(_)
\* the lines iterating over an open text file gives, s being what reading it
\* gives: each keeps its "\n"
readlines(s) ==
  IF s = "" THEN <<>>
  ELSE LET k == Find(s, "\n")
       IN IF k = 0 THEN <<s>>
          ELSE <<Slice(s, 1, k)>> \o readlines(Slice(s, k + 1, Len(s)))

(***************************************************************************)
(* get_memory_info                                                         *)
(***************************************************************************)
RECURSIVE WindowsMemoryLoop(_, _, _, _)
\* the for loop of line 312
WindowsMemoryLoop(lines, i, total, free) ==
  IF i > Len(lines) THEN [total |-> total, free |-> free]
  ELSE IF ~Contains(lines[i], "=") THEN WindowsMemoryLoop(lines, i + 1, total, free)
  ELSE LET kv == splitOn(strip(lines[i]), "=", 1)
           key == kv[1]
           n == ParseInt(kv[2])
           kib == IF n = None THEN None ELSE Some(n[1] * 1024)
       IN IF key = "FreePhysicalMemory"
            THEN WindowsMemoryLoop(lines, i + 1, total, IF n = None THEN free ELSE kib)
          ELSE IF key = "TotalVisibleMemorySize"
            THEN WindowsMemoryLoop(lines, i + 1, IF n = None THEN total ELSE kib, free)
          ELSE WindowsMemoryLoop(lines, i + 1, total, free)

RECURSIVE LinuxMemoryLoop(_, _)
\* the for loop of line 330 over the output of free -b: the int() calls of
\* lines 335-336 are outside any try
LinuxMemoryLoop(lines, i) ==
  IF i > Len(lines) THEN Return([total |-> None, free |-> None])
  ELSE IF ~startswith(lines[i], "Mem:") THEN LinuxMemoryLoop(lines, i + 1)
  ELSE LET parts == split(lines[i])
       IN IF Len(parts) < 4 THEN Return([total |-> None, free |-> None])
          ELSE IF ParseInt(parts[2]) = None \/ ParseInt(parts[4]) = None
            THEN Raised("ValueError")
          ELSE Return([total |-> ParseInt(parts[2]), free |-> ParseInt(parts[4])])

RECURSIVE MeminfoLoop(_, _, _, _)
\* the for loop of line 342 over /proc/meminfo, inside the try of line 340:
\* an IndexError or ValueError ends the scan with what was read so far
MeminfoLoop(lines, i, total, free) ==
  IF i > Len(lines) THEN [total |-> total, free |-> free]
  ELSE LET line == lines[i]
           parts == split(line)
           isTotal == startswith(line, "MemTotal:")
           isFree == ~isTotal /\ startswith(line, "MemFree:")
           n == IF Len(parts) >= 2 THEN ParseInt(parts[2]) ELSE None
           t == IF isTotal THEN Some(n[1] * 1024) ELSE total
           f == IF isFree THEN Some(n[1] * 1024) ELSE free
       IN IF (isTotal \/ isFree) /\ n = None THEN [total |-> total, free |-> free]
          ELSE IF t # None /\ f # None THEN [total |-> t, free |-> f]
          ELSE MeminfoLoop(lines, i + 1, t, f)

\* s.isdigit()
isdigit(s) == s # "" /\ AllIn(s, Digits \cup OtherDigits)

RECURSIVE PageSizeSearch(_, _)
\* re.search(r"page size of (\d+) bytes", s) from index i on: None, or
\* Some(group(1))
PageSizeSearch(s, i) ==
  LET p == FindFrom(s, "page size of ", i)
      e == RunEnd(s, p + 13, Digits)
  IN IF p = 0 THEN None
     ELSE IF e >= p + 13 /\ MatchAt(s, e + 1, " bytes")
       THEN Some(Slice(s, p + 13, e))
     ELSE PageSizeSearch(s, p + 1)

\* re.match(r"^Pages free:\s+(\d+)", line): None, or Some(group(1))
PagesFreeMatch(line) ==
  LET w == RunEnd(line, 12, Whitespace)
      d == RunEnd(line, w + 1, Digits)
  IN IF startswith(line, "Pages free:") /\ w >= 12 /\ d >= w + 1
       THEN Some(Slice(line, w + 1, d))
     ELSE None

RECURSIVE PagesFreeLoop(_, _)
\* the for loop of line 364: the match of the first line that matches, or
\* None
PagesFreeLoop(lines, i) ==
  IF i > Len(lines) THEN None
  ELSE IF PagesFreeMatch(lines[i]) # None THEN PagesFreeMatch(lines[i])
  ELSE PagesFreeLoop(lines, i + 1)

\* lines 353-355: total, or the ValueError of the int() of line 355, which is
\* outside any try (isdigit() holds of digits int() does not read)
DarwinTotal(e) ==
  LET total_str == Output(e, "sysctl -n hw.memsize")
  IN IF ~isdigit(total_str) THEN Return(None)
     ELSE IF ParseInt(total_str) = None THEN Raised("ValueError")
     ELSE Return(ParseInt(total_str))

\* lines 357-370: free, or the ValueError of the int() of line 362 or 367
DarwinFree(e) ==
  LET vm_output == Output(e, "vm_stat")
      m_ps == PageSizeSearch(vm_output, 1)
      m == PagesFreeLoop(splitlines(vm_output), 1)
      page_size == IF m_ps # None THEN ParseInt(m_ps[1]) ELSE Some(4096)
      pages_free == IF m # None THEN ParseInt(m[1]) ELSE Some(0)
  IN IF page_size = None \/ pages_free = None THEN Raised("ValueError")
     ELSE Return(IF pages_free[1] # 0 THEN Some(pages_free[1] * page_size[1]) ELSE None)

\* lines 353-370
DarwinMemory(e) ==
  IF IsRaised(DarwinTotal(e)) THEN DarwinTotal(e)
  ELSE IF IsRaised(DarwinFree(e)) THEN DarwinFree(e)
  ELSE Return([total |-> DarwinTotal(e).value, free |-> DarwinFree(e).value])

\* LinuxMemory reading /proc/meminfo also when free -b gave output but no
\* figures
LinuxMemoryFallsBackOnUnknown(e) ==
  LET output == Output(e, "free -b")
      primary == LinuxMemoryLoop(splitlines(output), 1)
  IN IF output # "" /\ primary # Return([total |-> None, free |-> None]) THEN primary
     ELSE IF "/proc/meminfo" \in DOMAIN e
       THEN Return(MeminfoLoop(readlines(ReadText(e, "/proc/meminfo")), 1, None, None))
     ELSE Return([total |-> None, free |-> None])

\* lines 327-350
LinuxMemory(e) ==
  LET output == Output(e, "free -b")
  IN IF output # "" THEN LinuxMemoryLoop(splitlines(output), 1)
     ELSE IF "/proc/meminfo" \in DOMAIN e
       THEN Return(MeminfoLoop(readlines(ReadText(e, "/proc/meminfo")), 1, None, None))
     ELSE Return([total |-> None, free |-> None])

WindowsMemoryCommand == "wmic OS get FreePhysicalMemory,TotalVisibleMemorySize /Value"

\* the outcome of get_memory_info(): Return of the dict, or the exception
get_memory_info(sys, e) ==
  IF sys = "windows"
    THEN Return(WindowsMemoryLoop(splitlines(Output(e, WindowsMemoryCommand)), 1, None, None))
  ELSE IF sys = "linux" THEN LinuxMemory(e)
  ELSE IF sys = "darwin" THEN DarwinMemory(e)
  ELSE Return([total |-> None, free |-> None])

\* the commands get_memory_info runs and the files it opens, in order
MemorySources(sys, e) ==
  IF sys = "windows" THEN <<WindowsMemoryCommand>>
  ELSE IF sys = "linux"
    THEN IF Output(e, "free -b") # "" THEN <<"free -b">> ELSE <<"free -b", "/proc/meminfo">>
  ELSE IF sys = "darwin"
    THEN IF IsRaised(DarwinTotal(e)) THEN <<"sysctl -n hw.memsize">>
         ELSE <<"sysctl -n hw.memsize", "vm_stat">>
  ELSE <<>>

(***************************************************************************)
(* get_local_users                                                         *)
(***************************************************************************)
RECURSIVE NetUserLoopSkipsBlank(_, _, _, _)
\* NetUserLoop going on after a blank line instead of stopping there
NetUserLoopSkipsBlank(lines, i, collecting, users) ==
  IF i > Len(lines) THEN users
  ELSE IF ~collecting
    THEN NetUserLoopSkipsBlank(lines, i + 1, startswith(strip(lines[i]), "---"), users)
  ELSE NetUserLoopSkipsBlank(lines, i + 1, collecting, users \o split(lines[i]))

RECURSIVE NetUserLoop(_, _, _, _)
\* the for loop of line 149 over the output of net user
NetUserLoop(lines, i, collecting, users) ==
  IF i > Len(lines) THEN users
  ELSE IF ~collecting
    THEN NetUserLoop(lines, i + 1, startswith(strip(lines[i]), "---"), users)
  ELSE IF strip(lines[i]) = "" THEN users
  ELSE NetUserLoop(lines, i + 1, collecting, users \o split(lines[i]))

RECURSIVE PasswdLoop(_, _, _)
\* the for loop of line 162 over /etc/passwd
PasswdLoop(lines, i, users) ==
  IF i > Len(lines) THEN users
  ELSE IF strip(lines[i]) = "" \/ startswith(lines[i], "#")
    THEN PasswdLoop(lines, i + 1, users)
  ELSE PasswdLoop(lines, i + 1, Append(users, splitOn(lines[i], ":", -1)[1]))

get_local_users(sys, e) ==
  IF sys = "windows" THEN NetUserLoop(splitlines(Output(e, "net user")), 1, FALSE, <<>>)
  ELSE IF "/etc/passwd" \in DOMAIN e THEN PasswdLoop(readlines(ReadText(e, "/etc/passwd")), 1, <<>>)
  ELSE <<>>

\* the command get_local_users runs or the file it opens
UserSources(sys) == IF sys = "windows" THEN <<"net user">> ELSE <<"/etc/passwd">>

(***************************************************************************)
(* get_cpu_info                                                            *)
(***************************************************************************)
\* line.split(sep, 1)[1].strip(): None for the IndexError of a line that
\* does not hold sep
AfterFirst(line, sep) ==
  IF Contains(line, sep) THEN Some(strip(splitOn(line, sep, 1)[2])) ELSE None

RECURSIVE WindowsCpuLoop(_, _)
\* the for loop of line 380
WindowsCpuLoop(lines, i) ==
  IF i > Len(lines) THEN None
  ELSE IF startswith(lines[i], "Name=") THEN AfterFirst(lines[i], "=")
  ELSE WindowsCpuLoop(lines, i + 1)

RECURSIVE CpuinfoLoop(_, _)
\* the for loop of line 388 over /proc/cpuinfo, inside the try of line 386:
\* the IndexError of a "model name" line without ":" leaves cpu None
CpuinfoLoop(lines, i) ==
  IF i > Len(lines) THEN None
  ELSE IF startswith(lower(lines[i]), "model name") THEN AfterFirst(lines[i], ":")
  ELSE CpuinfoLoop(lines, i + 1)

RECURSIVE LscpuLoop(_, _)
\* the for loop of line 397 over the output of lscpu, outside any try
LscpuLoop(lines, i) ==
  IF i > Len(lines) THEN Return(None)
  ELSE IF Contains(lower(lines[i]), "model name")
    THEN IF AfterFirst(lines[i], ":") = None THEN Raised("IndexError")
         ELSE Return(AfterFirst(lines[i], ":"))
  ELSE LscpuLoop(lines, i + 1)

\* cpu after lines 386-393
CpuinfoCpu(e) ==
  IF "/proc/cpuinfo" \in DOMAIN e THEN CpuinfoLoop(readlines(ReadText(e, "/proc/cpuinfo")), 1) ELSE None

\* not cpu: None or the empty str
Falsy(opt) == opt = None \/ opt = Some("")

\* the outcome of get_cpu_info(): Return of the Optional str, or the exception
get_cpu_info(sys, e) ==
  IF sys = "windows"
    THEN Return(WindowsCpuLoop(splitlines(Output(e, "wmic cpu get Name /Value")), 1))
  ELSE IF sys = "linux"
    THEN IF ~Falsy(CpuinfoCpu(e)) THEN Return(CpuinfoCpu(e))
         ELSE LET fallback == LscpuLoop(splitlines(Output(e, "lscpu")), 1)
              IN IF IsRaised(fallback) THEN fallback
                 ELSE IF Contains(lower(Output(e, "lscpu")), "model name") THEN fallback
                 ELSE Return(CpuinfoCpu(e))
  ELSE IF sys = "darwin"
    THEN LET output == Output(e, "sysctl -n machdep.cpu.brand_string")
         IN Return(IF output # "" THEN Some(strip(output)) ELSE None)
  ELSE Return(None)

\* the commands get_cpu_info runs and the files it opens, in order
CpuSources(sys, e) ==
  IF sys = "windows" THEN <<"wmic cpu get Name /Value">>
  ELSE IF sys = "linux"
    THEN IF ~Falsy(CpuinfoCpu(e)) THEN <<"/proc/cpuinfo">> ELSE <<"/proc/cpuinfo", "lscpu">>
  ELSE IF sys = "darwin" THEN <<"sysctl -n machdep.cpu.brand_string">>
  ELSE <<>>

(***************************************************************************)
(* get_vendor_model                                                        *)
(***************************************************************************)
RECURSIVE WindowsVendorLoop(_, _, _, _)
\* the for loop of line 414
WindowsVendorLoop(lines, i, manufacturer, model) ==
  IF i > Len(lines) THEN [manufacturer |-> manufacturer, model |-> model]
  ELSE IF startswith(lower(lines[i]), "manufacturer=")
    THEN WindowsVendorLoop(lines, i + 1, AfterFirst(lines[i], "="), model)
  ELSE IF startswith(lower(lines[i]), "model=")
    THEN WindowsVendorLoop(lines, i + 1, manufacturer, AfterFirst(lines[i], "="))
  ELSE WindowsVendorLoop(lines, i + 1, manufacturer, model)

RECURSIVE DarwinVendorLoop(_, _, _, _)
\* the for loop of line 435
DarwinVendorLoop(lines, i, manufacturer, model) ==
  IF i > Len(lines) THEN [manufacturer |-> manufacturer, model |-> model]
  ELSE IF Contains(lines[i], "Model Name:")
    THEN DarwinVendorLoop(lines, i + 1, manufacturer, AfterFirst(lines[i], ":"))
  ELSE IF Contains(lines[i], "Model Identifier:") /\ Falsy(model)
    THEN DarwinVendorLoop(lines, i + 1, manufacturer, AfterFirst(lines[i], ":"))
  ELSE IF Contains(lines[i], "Manufacturer:")
    THEN DarwinVendorLoop(lines, i + 1, AfterFirst(lines[i], ":"), model)
  ELSE DarwinVendorLoop(lines, i + 1, manufacturer, model)

\* f.read().strip() of a file that opens, None of one that does not
ReadStripped(e, path) == IF path \in DOMAIN e THEN Some(strip(ReadText(e, path))) ELSE None

get_vendor_model(sys, e) ==
  IF sys = "windows"
    THEN WindowsVendorLoop(
           splitlines(Output(e, "wmic computersystem get manufacturer,model /Value")),
           1, None, None)
  ELSE IF sys = "linux"
    THEN [manufacturer |-> ReadStripped(e, "/sys/class/dmi/id/sys_vendor"),
          model |-> ReadStripped(e, "/sys/class/dmi/id/product_name")]
  ELSE IF sys = "darwin"
    THEN DarwinVendorLoop(splitlines(Output(e, "system_profiler SPHardwareDataType")),
                          1, None, None)
  ELSE [manufacturer |-> None, model |-> None]

\* the commands get_vendor_model runs and the files it opens, in order
VendorSources(sys) ==
  IF sys = "windows" THEN <<"wmic computersystem get manufacturer,model /Value">>
  ELSE IF sys = "linux"
    THEN <<"/sys/class/dmi/id/sys_vendor", "/sys/class/dmi/id/product_name">>
  ELSE IF sys = "darwin" THEN <<"system_profiler SPHardwareDataType">>
  ELSE <<>>

(***************************************************************************)
(* gather_host_info                                                        *)
(***************************************************************************)
\* what a source other than a command or a file says: "" when e has none
Source(e, k) == IF k \in DOMAIN e THEN e[k] ELSE ""

\* socket.gethostname(), "" when it raises
get_hostname(e) == Source(e, "socket.gethostname")

\* getpass.getuser(), os.environ.get("USER", "") when it raises
get_current_user(e) ==
  IF "getpass.getuser" \in DOMAIN e THEN e["getpass.getuser"] ELSE Source(e, "USER")

\* lines 78-83: what the platform module says
get_os_info(e) ==
  [system |-> Source(e, "platform.system"),
   release |-> Source(e, "platform.release"),
   version |-> Source(e, "platform.version"),
   architecture |-> Source(e, "platform.machine")]

get_network_info(sys, e) ==
  IF sys = "windows" THEN parse_ip_config_windows(e) ELSE parse_ip_config_posix(sys, e)

\* the command get_network_info runs
NetworkCommand(sys) == IF sys = "windows" THEN "ipconfig /all" ELSE PosixNetCommand(sys)

\* time.strftime("%Y-%m-%dT%H:%M:%SZ", time.gmtime()) in the first ten
\* seconds of the epoch
FormatTime(now) == "1970-01-01T00:00:0" \o Char(DigitString, now + 1) \o "Z"

RECURSIVE ListOfSet(_, _)
\* the order in which a set of str is iterated: by hash, which the seed of
\* the process fixes, so any order can be the one. The orders of S are
\* numbered: sd picks the first element among those of S, then the next among
\* the rest
ListOfSet(S, sd) ==
  IF S = {} THEN <<>>
  ELSE LET a == sorted(S)[(sd % Cardinality(S)) + 1]
       IN <<a>> \o ListOfSet(S \ {a}, sd \div Cardinality(S))

RECURSIVE InsertSorted(_, _)
\* q, sorted, with x put before the first element greater than it
InsertSorted(q, x) ==
  IF q = <<>> THEN <<x>>
  ELSE IF StrLess(x, Head(q)) THEN <<x>> \o q
  ELSE <<Head(q)>> \o InsertSorted(Tail(q), x)

\* SortedList leaving the list as it is iterated
UnsortedList(q) == q

RECURSIVE SortedList(_)
\* sorted(q) of a list of str, each the sequence of its code points
SortedList(q) ==
  IF q = <<>> THEN <<>> ELSE InsertSorted(SortedList(SubSeq(q, 1, Len(q) - 1)), q[Len(q)])

\* lines 637-641: the set of the names of the tools that run
DetectedSet(sys, e) == DetectLoop(get_running_process_names(sys, e), 1, {})

\* line 642 in a process whose hash seed is sd
DetectedUnderSeed(found, sd) == SortedList(ListOfSet(found, sd))

\* what each collector that gather_host_info calls gives on e; none of them
\* reads the clock or iterates a set
Collected(sys, e) ==
  [domain |-> get_domain_name(sys, e),
   users |-> get_local_users(sys, e),
   network |-> get_network_info(sys, e),
   mem_info |-> get_memory_info(sys, e),
   vendor_model |-> get_vendor_model(sys, e),
   cpu |-> get_cpu_info(sys, e),
   disks |-> get_disk_info(sys, e),
   found |-> DetectedSet(sys, e)]

\* the commands run and files opened up to the return of get_memory_info
SourcesUpToMemory(sys, e, domain) ==
  domain.ran \o UserSources(sys) \o <<NetworkCommand(sys)>> \o MemorySources(sys, e)

\* lines 647-670, given what the collectors gave: the outcome, Return of the
\* report or the first exception a collector raised, and the commands run and
\* files opened, in order, up to that exception if there is one
Assemble(sys, e, sd, now, c) ==
  LET upToMemory == SourcesUpToMemory(sys, e, c.domain)
  IN
  IF IsRaised(c.mem_info) THEN [outcome |-> c.mem_info, ran |-> upToMemory]
  ELSE IF IsRaised(c.cpu)
    THEN [outcome |-> c.cpu,
          ran |-> upToMemory \o VendorSources(sys) \o CpuSources(sys, e)]
  ELSE
    [outcome |-> Return(
       [collected_at |-> FormatTime(now),
        basic_config |-> [hostname |-> get_hostname(e),
                          domain |-> c.domain.domain,
                          current_user |-> get_current_user(e),
                          os |-> get_os_info(e),
                          users |-> c.users],
        network |-> c.network,
        hardware |-> [manufacturer |-> c.vendor_model.manufacturer,
                      model |-> c.vendor_model.model,
                      cpu |-> c.cpu.value,
                      memory_total_bytes |-> c.mem_info.value.total,
                      memory_free_bytes |-> c.mem_info.value.free,
                      disks |-> c.disks],
        security_tools |-> [detected |-> DetectedUnderSeed(c.found, sd),
                            detection_method |-> "process_scan"]]),
     ran |-> upToMemory \o VendorSources(sys) \o CpuSources(sys, e)
               \o <<DiskCommand(sys), ProcessCommand(sys)>>]

\* gather_host_info() in a process of hash seed sd at second now: its
\* outcome and the commands it ran and files it opened
gather_host_info(sys, e, sd, now) == Assemble(sys, e, sd, now, Collected(sys, e))

(***************************************************************************)
(* What the external commands print: the inputs of the collectors           *)
(***************************************************************************)
\* the most lines a drawn output has
MaxLines == 3

\* platform.system().lower(): the three platforms the collectors know, and one
\* they do not
Systems == {"windows", "linux", "darwin", "freebsd"}

\* the sequences of at most n elements of S
SeqsUpTo(S, n) == UNION {[1..k -> S] : k \in 0..n}

RECURSIVE Text(_)
\* the text a command prints when it prints these lines
Text(ls) == IF ls = <<>> THEN "" ELSE Head(ls) \o "\n" \o Text(Tail(ls))

TextsOf(L) == {Text(ls) : ls \in SeqsUpTo(L, MaxLines)}

IpconfigLines ==
  {"",
   "Windows IP Configuration",
   "Ethernet adapter Eth0:",
   "Wi-Fi:",
   "   Physical Address. . . : 00-11-22-33-44-55",
   "   IPv4 Address: 10.0.0.5(Preferred)",
   "   IPv6 Address. . . : fe80::1%4(Preferred)"}

AdapterNames == {"Ethernet adapter Eth0", "Wi-Fi"}

AdapterMacs == {"00-11-22-33-44-55", "AA-BB-CC-DD-EE-FF"}

AdapterIps == {"10.0.0.5", "192.168.1.7"}

IpSuffixes == {"", "(Preferred)"}

BlankLines == {"", "   "}

\* what stands before the colon of an IPv4 Address line: the bare key, or the
\* key with the dot leaders ipconfig pads it with
IpKeys == {"IPv4 Address", "IPv4 Address. . . . . . . . . . . "}

\* an adapter block: the header, one Physical Address line, one IPv4 Address line
AdapterBlock(name, mac, key, ip, suffix) ==
  <<name \o ":",
    "   Physical Address. . . . . . . . . : " \o mac,
    "   " \o key \o ": " \o ip \o suffix>>

TwoBlockParams ==
  [n1 : AdapterNames, m1 : AdapterMacs, k1 : IpKeys, i1 : AdapterIps, s1 : IpSuffixes,
   n2 : AdapterNames, m2 : AdapterMacs, k2 : IpKeys, i2 : AdapterIps, s2 : IpSuffixes,
   blank : BlankLines]

\* two adapter blocks with one blank line between them
TwoBlockText ==
  [p \in TwoBlockParams |->
     Text(AdapterBlock(p.n1, p.m1, p.k1, p.i1, p.s1) \o <<p.blank>>
          \o AdapterBlock(p.n2, p.m2, p.k2, p.i2, p.s2))]

TwoBlockTexts == {TwoBlockText[p] : p \in TwoBlockParams}

IpconfigOutputs ==
  TextsOf(IpconfigLines) \cup TwoBlockTexts
    \cup {"Wi-Fi:\r\r\n  PHYSICAL ADDRESS. : 00-11-22-33-44-55\r\r\n\r\r\n\fEth1:\r\r\n IP Address: 10.0.0.9 (x)\r\r\n"}

IpAddrLines ==
  {"garbage line",
   "1: lo link link/loopback",
   "2: eth0 inet 10.0.0.5/24 brd 10.0.0.255",
   "2: eth0 inet6 fe80::1/64 scope link",
   "2: eth0 link link/ether aa:bb:cc:dd:ee:ff brd ff:ff:ff:ff:ff:ff",
   "2: eth0 link link/ether 00-11-22-33-44-55",
   "3: wlan0 mpls 16 x"}

\* a second IPv4 address of eth0
SecondaryLine == "2: eth0 inet 10.0.0.6/24 secondary"

\* outputs in which eth0 has that second address, after or before two
\* other lines
SecondaryOutputs ==
  {Text(<<x, y, SecondaryLine>>) : x, y \in IpAddrLines}
    \cup {Text(<<SecondaryLine, x, y>>) : x, y \in IpAddrLines}

\* outputs with other line ends, other white space and a non-ASCII family
\* of link
OtherIpAddrOutputs ==
  {"2: eth0 link link/éther aa:bb:cc:dd:ee:ff\r\n3: wlan0\finet\t10.0.0.7/8\r\n",
   "2: eth0 inet 10.0.0.5/24\f2: eth0 LINK LINK/ETHER AA:BB:CC:DD:EE:0F x\n"}

IpAddrOutputs == TextsOf(IpAddrLines) \cup SecondaryOutputs \cup OtherIpAddrOutputs

IfconfigLines ==
  {"",
   "en0: flags=8863<UP> mtu 1500",
   "en1: flags=8863 ether 00:00:5e:00:53:01",
   "bridge0 flags=8863",
   "\tether aa:bb:cc:dd:ee:ff",
   "\tether 11:22:33:44:55:66 ether 00:00:5e:00:53:02",
   "\tinet 192.168.1.5 netmask 0xffffff00",
   "\tinet6 fe80::1%en0 prefixlen 64"}

IfconfigOutputs ==
  TextsOf(IfconfigLines)
    \cup {"en0 x: flags=1\r\n\tinet ۱۰.0.0.۱ netmask 0xff\r\n\tinet ².0.0.1\n"}

DomainOutputs ==
  {"", "(none)\n", "(NONE)\n", "Unknown\n", "unknown.lan\n", "corp.example.com\n",
   "\fcorp.lan\f\r\n"}

\* wmic ends its lines with "\r\r\n"
WmicDomainOutputs ==
  {"", "Domain\n", "Domain  \n\nWORKGROUP  \n", "Domain  \r\r\nCORP  \r\r\n\r\r\n"}

DfHeader == "Filesystem 1024-blocks Used Available Capacity Mounted on"

DfRows ==
  {"/dev/sda1 1000 400 600 40% /",
   "tmpfs 5 - 1_0 0% /run extra",
   "overlay 9 3 6 34%",
   "/dev/sdb1 20 +8 12.5 41% /mnt"}

\* df prints its header and rows; a first line that is a row is read too
DfOutputs ==
  {Text(<<h>> \o rows) : h \in {DfHeader, "/dev/sdc1 7 3 4 43% /boot"},
                         rows \in SeqsUpTo(DfRows, MaxLines)}
  \cup {"", "\n",
        "Filesystem\r\n/dev/sda1 ۱۰۰۰ 400 ² 40% /\r\n",
        "Filesystem\ftmpfs 5 3 2 60% /run/dev/sdb1 9 1\f8 12% /mnt"}

WmicDiskLines ==
  {"Node,Caption,FileSystem,FreeSpace,Size",
   "PC,C:,NTFS,400,1000",
   "NodePC,D:,FAT32,1,2",
   "PC,E:,,,",
   "PC,F:,NTFS,x,8",
   "PC,G:"}

WmicDiskOutputs ==
  TextsOf(WmicDiskLines)
    \cup {"Node,Caption,FileSystem,FreeSpace,Size\r\r\nPC,C:,NTFS, 400 ,1000\r\r\n"}

TasklistLines ==
  {"",
   "\"MsMpEng.exe\",\"4\"",
   "\"msascuil.EXE\",\"5\"",
   "\"explorer.exe\",\"6\"",
   "\"avp.exe\",\"7\"",
   "\"Sysmon\",\"8\""}

PsLines ==
  {"COMMAND",
   "msmpeng",
   "explorer",
   "/opt/fireeye/bin/xagt",
   "  FW",
   "cb.exe"}

ProcessOutputs(sys) ==
  IF sys = "windows"
    THEN TextsOf(TasklistLines)
           \cup {"\"Sysmon.exe\",\"1\"\r\n\r\n\"CB.EXE\",\"2\"\r\n", "\"ÉDR.exe\",\"1\"\n\"ΟΔΟΣ.EXE\",\"2\"\n"}
  ELSE TextsOf(PsLines) \cup {"COMMAND\nxagt\fSYSMON/bin/cpd\n"}

\* the external sources get_domain_name may read on platform sys
DomainEnvs(sys) ==
  IF sys = "windows"
    THEN {("wmic computersystem get domain" :> w) @@ u :
            w \in WmicDomainOutputs,
            u \in {EmptyDict, "USERDOMAIN" :> "CORP"}}
  ELSE [{DomainCommands[i] : i \in 1..Len(DomainCommands)} -> DomainOutputs]

\* lines of the output of free -b
FreeLines ==
  {"total used free shared",
   "Mem: 1000 400 600 0 0 0",
   "Mem: 1000 400",
   "Mem: 2000 400 n/a",
   "Mem: 1e3 400 600",
   "Swap: 0 0 0"}

\* lines of /proc/meminfo
MeminfoLines ==
  {"MemTotal: 2 kB",
   "MemFree: 1 kB",
   "MemTotal: lots kB",
   "MemFree:",
   "Cached: 5 kB"}

\* the sources of get_memory_info on Linux: free -b prints something and
\* the file is there or not, or it prints nothing (or only white space) and
\* the file, if any, says anything
LinuxMemoryEnvs ==
  {("free -b" :> raw) @@ f :
     raw \in TextsOf(FreeLines) \ {""},
     f \in {EmptyDict, "/proc/meminfo" :> "MemTotal: 2 kB\nMemFree: 1 kB\n"}}
  \cup {("free -b" :> raw) @@ f :
          raw \in {"", " \n"},
          f \in {EmptyDict} \cup {"/proc/meminfo" :> t : t \in TextsOf(MeminfoLines)}}
  \cup {f : f \in {EmptyDict, "/proc/meminfo" :> "MemFree: 3 kB\nMemTotal: 4 kB\n"}}

\* lines of the output of wmic OS get ... /Value
WmicMemoryLines ==
  {"",
   "FreePhysicalMemory=4",
   "TotalVisibleMemorySize=8",
   "FreePhysicalMemory=",
   "TotalVisibleMemorySize=1.5",
   "Caption=a=b"}

\* lines of the output of vm_stat
VmStatLines ==
  {"Mach Virtual Memory Statistics: (page size of 16 bytes)",
   "Mach Virtual Memory Statistics: (page size of 4Ki bytes)",
   "Pages free: 10.",
   "Pages free:   0.",
   "Pages free: many",
   "Pages free: \t۳.",
   "Pages active: 7."}

MemsizeOutputs == {"", "8192\n", "8192 MB\n", "-5\n", "²\n", "۸\r\n"}

MemoryEnvs(sys) ==
  IF sys = "windows" THEN {WindowsMemoryCommand :> raw : raw \in TextsOf(WmicMemoryLines)}
  ELSE IF sys = "linux" THEN LinuxMemoryEnvs
  ELSE {("sysctl -n hw.memsize" :> m) @@ ("vm_stat" :> v) :
          m \in MemsizeOutputs, v \in TextsOf(VmStatLines)}

\* the most lines a drawn output of net user has
MaxUserLines == 5

\* lines of the output of net user
NetUserLines ==
  {"",
   "  ---x",
   "al bob",
   "-- Guest"}

NetUserOutputs ==
  {Text(ls) : ls \in SeqsUpTo(NetUserLines, MaxUserLines)}
    \cup {"User accounts\r\n\r\n-----\r\nal bob\fcy\r\n\r\nThe end\r\n"}

\* lines of /etc/passwd
PasswdLines ==
  {"root:x:0:0",
   "# comment",
   "",
   "daemon",
   " :x"}

UserEnvs(sys) ==
  IF sys = "windows" THEN {"net user" :> raw : raw \in NetUserOutputs} \cup {EmptyDict}
  ELSE {"/etc/passwd" :> t :
          t \in TextsOf(PasswdLines) \cup {"root:x:0:0", "alice:x\rbob:x\r\n\f\ncarol\fx:1\n"}}
         \cup {EmptyDict}

\* lines of the output of wmic cpu get Name /Value
WmicCpuLines == {"", "Name=Intel(R) Core", "Name=", "Caption=x"}

CpuinfoTexts ==
  {"processor : 0\nmodel name\t: AMD Ryzen\nmodel name : other\n",
   "processor : 0\rMODEL NAME: \fAMD\f\r\n",
   "Model Name AMD\n",
   "model name :\n",
   "processor : 0\n"}

LscpuOutputs ==
  {"",
   "Architecture: x86_64\nModel name: Xeon\n",
   "Model name Xeon\nModel name: late\n",
   "BIOS Model name: Xeon CPU\n"}

CpuEnvs(sys) ==
  IF sys = "windows" THEN {"wmic cpu get Name /Value" :> raw : raw \in TextsOf(WmicCpuLines)}
  ELSE IF sys = "linux"
    THEN {f @@ c : f \in {EmptyDict} \cup {"/proc/cpuinfo" :> t : t \in CpuinfoTexts},
                   c \in {EmptyDict} \cup {"lscpu" :> raw : raw \in LscpuOutputs}}
  ELSE {"sysctl -n machdep.cpu.brand_string" :> raw : raw \in {"", " Apple M1 \n"}}
          \cup {EmptyDict}

\* lines of the output of wmic computersystem get manufacturer,model /Value
WmicVendorLines ==
  {"", "Manufacturer=Dell Inc.", "Model=XPS", "MODEL= Latitude ", "Name=x"}

\* lines of the output of system_profiler SPHardwareDataType
ProfilerLines ==
  {"      Model Name: MacBook Pro",
   "      Model Identifier: Mac14,7",
   "      Manufacturer: Apple",
   "      Model Name:",
   "      Chip: M2"}

DmiTexts == {"", "LENOVO\n", " 20XW \n", "\fThink\rPad\r\n"}

VendorEnvs(sys) ==
  IF sys = "windows"
    THEN {"wmic computersystem get manufacturer,model /Value" :> raw :
            raw \in TextsOf(WmicVendorLines)}
  ELSE IF sys = "linux"
    THEN {v @@ p : v \in {EmptyDict} \cup {"/sys/class/dmi/id/sys_vendor" :> t : t \in DmiTexts},
                   p \in {EmptyDict} \cup {"/sys/class/dmi/id/product_name" :> t : t \in DmiTexts}}
  ELSE {"system_profiler SPHardwareDataType" :> raw : raw \in TextsOf(ProfilerLines)}

\* the latest second of the wall clock
MaxClock == 1

\* the hash seeds a process can start with: one for each of the six orders
\* of a set of three names, the most a host here runs
Seeds == 0..5

\* the sources that are neither commands nor files
PlatformFacts ==
  ("socket.gethostname" :> "host1") @@ ("getpass.getuser" :> "al")
    @@ ("platform.release" :> "10") @@ ("platform.version" :> "10.0.1")
    @@ ("platform.machine" :> "x86_64")

TasklistOutputs ==
  {"",
   "\"Sysmon.exe\",\"8\"\n\"MsMpEng.exe\",\"5\"\n\"avp.exe\",\"7\"\n",
   "\"cmd.exe\",\"3\"\n\"cb.exe\",\"4\"\n"}

PsOutputs ==
  {"",
   "COMMAND\n/usr/bin/falcon-sensor\nbash\nosqueryd\nauditd\n",
   "COMMAND\ninit\nclamd\n"}

WindowsHosts ==
  {("wmic computersystem get domain" :> "Domain\nCORP\n")
     @@ ("net user" :> u) @@ ("ipconfig /all" :> n) @@ (WindowsMemoryCommand :> m)
     @@ ("wmic computersystem get manufacturer,model /Value" :> "Manufacturer=Dell Inc.\n")
     @@ ("wmic cpu get Name /Value" :> "Name=Intel(R) Core\n")
     @@ (DiskCommand("windows") :> "Node,Caption,FileSystem,FreeSpace,Size\nPC,C:,NTFS,400,1000\n")
     @@ ("tasklist /fo csv /nh" :> t) @@ PlatformFacts @@ ("platform.system" :> "Windows") :
     u \in {"", "-----\nal bob\n\nThe end\n"},
     n \in {"", "Wi-Fi:\n   IPv4 Address: 10.0.0.5(Preferred)\nEthernet adapter Eth0:\n   Physical Address. . . : 00-11-22-33-44-55\n"},
     m \in {"", "FreePhysicalMemory=4\nTotalVisibleMemorySize=x\n"},
     t \in TasklistOutputs}

LinuxHosts ==
  {("hostname -d" :> "(none)\n") @@ ("dnsdomainname" :> "corp.example\n")
     @@ ("domainname" :> "") @@ ("/etc/passwd" :> "root:x:0:0\ndaemon:x:1:1\n")
     @@ ("ip -o addr show" :> n) @@ ("free -b" :> m)
     @@ ("/proc/meminfo" :> "MemTotal: 2 kB\nMemFree: 1 kB\n")
     @@ ("/sys/class/dmi/id/sys_vendor" :> "LENOVO\n")
     @@ c @@ ("lscpu" :> l) @@ (DiskCommand("linux") :> "Filesystem 1-blocks Used Available Capacity Mounted on\n/dev/sda1 1000 400 600 40% /\n")
     @@ ("ps -eo comm" :> p) @@ PlatformFacts @@ ("platform.system" :> "Linux") :
     n \in {"", "2: wlan0 inet6 fe80::1/64\n3: eth0 inet 10.0.0.5/24\n2: wlan0 link link/ether 00:11:22:33:44:55\n"},
     m \in {"", "Mem: 1000 400 600\n", "Mem: 1e3 400 600\n"},
     c \in {EmptyDict, "/proc/cpuinfo" :> "model name : AMD Ryzen\n"},
     l \in {"Model name: Xeon\n", "Model name Xeon\n"},
     p \in PsOutputs}

DarwinHost(n, m, v, p, f) ==
  ("hostname -d" :> "") @@ ("dnsdomainname" :> "") @@ ("domainname" :> "")
    @@ ("ifconfig -a" :> n) @@ ("sysctl -n hw.memsize" :> m) @@ ("vm_stat" :> v)
    @@ ("system_profiler SPHardwareDataType" :> "      Model Name: MacBook Pro\n")
    @@ ("sysctl -n machdep.cpu.brand_string" :> "Apple M1\n")
    @@ (DiskCommand("darwin") :> "")
    @@ ("ps -eo comm" :> p) @@ f @@ ("platform.system" :> "Darwin")

\* the last one prints its memory size in digits int() does not read
DarwinHosts ==
  {DarwinHost(n, "8192\n", v, p, f) :
     n \in {"", "lo0: flags=8049\n\tinet 127.0.0.1 netmask 0xff000000\nen0: flags=8863\n\tether 00:11:22:33:44:55\n"},
     v \in {"", "Mach Virtual Memory Statistics: (page size of 16 bytes)\nPages free: 10.\n"},
     p \in PsOutputs,
     f \in {EmptyDict, "USER" :> "al", PlatformFacts}}
    \cup {DarwinHost("", "²\n", "", "", PlatformFacts)}

\* hosts of a platform the collectors do not know; the commands of the other
\* platforms are there to be run as well
FreeBsdHosts ==
  {("hostname -d" :> "corp.lan\n") @@ ("dnsdomainname" :> "") @@ ("domainname" :> "")
     @@ ("/etc/passwd" :> "root:*:0:0\ntoor:*:0:0\n")
     @@ ("ifconfig -a" :> n) @@ ("sysctl -n hw.memsize" :> "8192\n")
     @@ ("free -b" :> "Mem: 1000 400 600\n")
     @@ ("sysctl -n machdep.cpu.brand_string" :> "AMD Ryzen\n")
     @@ ("system_profiler SPHardwareDataType" :> "      Model Name: MacBook Pro\n")
     @@ (DiskCommand("freebsd") :> "Filesystem 1-blocks Used Available Capacity Mounted on\n/dev/ada0 1000 400 600 40% /\n")
     @@ ("ps -eo comm" :> p) @@ PlatformFacts @@ ("platform.system" :> "FreeBSD") :
     n \in {"", "em0: flags=8863\n\tether 00:11:22:33:44:55\n\tinet 10.0.0.9 netmask 0xffffff00\n"},
     p \in {"", "COMMAND\nclamd\n/usr/local/bin/osqueryd\n"}}

\* the hosts gather_host_info is run on: platform.system() is the name that
\* sys is the lower() of
Hosts(sys) ==
  IF sys = "windows" THEN WindowsHosts
  ELSE IF sys = "linux" THEN LinuxHosts
  ELSE IF sys = "darwin" THEN DarwinHosts
  ELSE FreeBsdHosts

\* what the command or file k gives on the hosts of the platform that is not
\* known
OtherOutputs(k) == {h[k] : h \in FreeBsdHosts}

\* the outputs of the command get_network_info runs on a platform other than
\* Windows
PosixNetOutputs(sys) ==
  IF sys = "linux" THEN IpAddrOutputs
  ELSE IF sys = "darwin" THEN IfconfigOutputs
  ELSE OtherOutputs("ifconfig -a")

\* the outputs of the command get_disk_info runs
DiskOutputs(sys) ==
  IF sys = "windows" THEN WmicDiskOutputs
  ELSE IF sys \in {"linux", "darwin"} THEN DfOutputs
  ELSE OtherOutputs("df -P -B1")

\* the sources each collector is called on, alone
DomainCallEnvs(sys) == IF sys = "freebsd" THEN FreeBsdHosts ELSE DomainEnvs(sys)

ProcessCallOutputs(sys) ==
  IF sys = "freebsd" THEN OtherOutputs("ps -eo comm") ELSE ProcessOutputs(sys)

MemoryCallEnvs(sys) == IF sys = "freebsd" THEN FreeBsdHosts ELSE MemoryEnvs(sys)

UserCallEnvs(sys) == IF sys = "freebsd" THEN FreeBsdHosts ELSE UserEnvs(sys)

CpuCallEnvs(sys) == IF sys = "freebsd" THEN FreeBsdHosts ELSE CpuEnvs(sys)

VendorCallEnvs(sys) == IF sys = "freebsd" THEN FreeBsdHosts ELSE VendorEnvs(sys)

(***************************************************************************)
(* The calls                                                               *)
(***************************************************************************)
Init ==
  /\ system \in Systems
  /\ fn = "none"
  /\ env = EmptyDict
  /\ ran = <<>>
  /\ ret = None
  /\ clock = 0
  /\ seed = 0
  /\ prev = None

\* get_network_info on Windows
ParseIpConfigWindows ==
  /\ fn = "none"
  /\ system = "windows"
  /\ \E raw \in IpconfigOutputs :
       /\ env' = ("ipconfig /all" :> raw)
       /\ ret' = parse_ip_config_windows(env')
  /\ fn' = "parse_ip_config_windows"
  /\ ran' = <<"ipconfig /all">>
  /\ UNCHANGED <<system, clock, seed, prev>>

\* get_network_info on every other platform
ParseIpConfigPosix ==
  /\ fn = "none"
  /\ system # "windows"
  /\ \E raw \in PosixNetOutputs(system) :
       /\ env' = (PosixNetCommand(system) :> raw)
       /\ ret' = parse_ip_config_posix(system, env')
  /\ fn' = "parse_ip_config_posix"
  /\ ran' = <<PosixNetCommand(system)>>
  /\ UNCHANGED <<system, clock, seed, prev>>

GetDomainName ==
  /\ fn = "none"
  /\ \E e \in DomainCallEnvs(system) :
       /\ env' = e
       /\ ret' = get_domain_name(system, e).domain
       /\ ran' = get_domain_name(system, e).ran
  /\ fn' = "get_domain_name"
  /\ UNCHANGED <<system, clock, seed, prev>>

GetDiskInfo ==
  /\ fn = "none"
  /\ \E raw \in DiskOutputs(system) :
       /\ env' = (DiskCommand(system) :> raw)
       /\ ret' = get_disk_info(system, env')
  /\ fn' = "get_disk_info"
  /\ ran' = <<DiskCommand(system)>>
  /\ UNCHANGED <<system, clock, seed, prev>>

DetectSecurityTools ==
  /\ fn = "none"
  /\ \E raw \in ProcessCallOutputs(system) :
       /\ env' = (ProcessCommand(system) :> raw)
       /\ ret' = detect_security_tools(system, env')
  /\ fn' = "detect_security_tools"
  /\ ran' = <<ProcessCommand(system)>>
  /\ UNCHANGED <<system, clock, seed, prev>>

Next ==
  \/ ParseIpConfigWindows
  \/ ParseIpConfigPosix
  \/ GetDomainName
  \/ GetDiskInfo
  \/ DetectSecurityTools

Spec == Init /\ [][Next]_vars

(***************************************************************************)
(* The calls of the hardware and account collectors and of the assembler   *)
(***************************************************************************)
GetMemoryInfo ==
  /\ fn = "none"
  /\ \E e \in MemoryCallEnvs(system) :
       /\ env' = e
       /\ ret' = get_memory_info(system, e)
       /\ ran' = MemorySources(system, e)
  /\ fn' = "get_memory_info"
  /\ UNCHANGED <<system, clock, seed, prev>>

GetLocalUsers ==
  /\ fn = "none"
  /\ \E e \in UserCallEnvs(system) :
       /\ env' = e
       /\ ret' = get_local_users(system, e)
  /\ ran' = UserSources(system)
  /\ fn' = "get_local_users"
  /\ UNCHANGED <<system, clock, seed, prev>>

GetCpuInfo ==
  /\ fn = "none"
  /\ \E e \in CpuCallEnvs(system) :
       /\ env' = e
       /\ ret' = get_cpu_info(system, e)
       /\ ran' = CpuSources(system, e)
  /\ fn' = "get_cpu_info"
  /\ UNCHANGED <<system, clock, seed, prev>>

GetVendorModel ==
  /\ fn = "none"
  /\ \E e \in VendorCallEnvs(system) :
       /\ env' = e
       /\ ret' = get_vendor_model(system, e)
  /\ ran' = VendorSources(system)
  /\ fn' = "get_vendor_model"
  /\ UNCHANGED <<system, clock, seed, prev>>

\* the call ends with this outcome after these commands and files
Returns(run) == ret' = run.outcome /\ ran' = run.ran

\* the runs of gather_host_info on e from second from on, the collectors
\* giving c: one for each hash seed and second, with what it gave
RunsGiven(sys, e, from, c) ==
  {[sd |-> sd, now |-> now, gave |-> Assemble(sys, e, sd, now, c)] :
     sd \in Seeds, now \in from..MaxClock}

Runs(sys, e, from) == RunsGiven(sys, e, from, Collected(sys, e))

\* main: one run of the assembler, in a process started with some hash seed
\* at some second; after the first run, a second one in a new process
\* against the sources of the first
GatherHostInfo ==
  /\ fn \in {"none", "gather_host_info"}
  /\ prev = None
  /\ \E e \in IF fn = "none" THEN Hosts(system) ELSE {env} :
       \E run \in Runs(system, e, clock) :
         /\ env' = e
         /\ seed' = run.sd
         /\ clock' = run.now
         /\ Returns(run.gave)
  /\ prev' = IF fn = "none" THEN None ELSE Some(ret)
  /\ fn' = "gather_host_info"
  /\ UNCHANGED system

HostNext ==
  \/ GetMemoryInfo
  \/ GetDiskInfo
  \/ GetLocalUsers
  \/ GetCpuInfo
  \/ GetVendorModel
  \/ GatherHostInfo

HostSpec == Init /\ [][HostNext]_vars

(***************************************************************************)
(* The network interface parser                                            *)
(***************************************************************************)
IsNetworkCall == fn \in {"parse_ip_config_windows", "parse_ip_config_posix"}

IsLinuxNetworkCall == fn = "parse_ip_config_posix" /\ system = "linux"

IsBsdNetworkCall == fn = "parse_ip_config_posix" /\ system # "linux"

\* r.get(k, [])
Field(r, k) == IF k \in DOMAIN r THEN r[k] ELSE <<>>

\* the lines a collector reads from the one command it ran
LinesRead == splitlines(run_command(env[ran[1]]))

\* C1: every returned interface record that has a MAC or an IPv4/IPv6
\* address also has a name, on every platform and for every output.
C1_NamePresentWithAddress ==
  IsNetworkCall =>
    \A k \in 1..Len(ret) :
      DOMAIN ret[k] \cap {"mac", "ipv4", "ipv6"} # {} => "name" \in DOMAIN ret[k]

\* C2: two adapter blocks (header, Physical Address line, IPv4 Address line,
\* its key bare or padded with dot leaders as ipconfig prints it) with a blank
\* line between them give exactly two interfaces, each with its own name, MAC
\* and one IPv4 address, the "(...)" suffix removed.
C2_TwoAdapterBlocks ==
  (fn = "parse_ip_config_windows" /\ env["ipconfig /all"] \in TwoBlockTexts) =>
    \A p \in TwoBlockParams :
      env["ipconfig /all"] = TwoBlockText[p] =>
        ret = <<[name |-> p.n1, mac |-> p.m1, ipv4 |-> <<p.i1>>],
                [name |-> p.n2, mac |-> p.m2, ipv4 |-> <<p.i2>>]>>

\* the address text before the first "/"
AddressText(addr_mask) ==
  IF Find(addr_mask, "/") = 0 THEN addr_mask ELSE Slice(addr_mask, 1, Find(addr_mask, "/") - 1)

RECURSIVE AddressesOf(_, _, _)
\* the addresses, in line order, of the lines of at least 4 fields that name
\* interface `name` with family tag `family`
AddressesOf(lines, name, family) ==
  IF lines = <<>> THEN <<>>
  ELSE LET parts == split(Head(lines))
           rest == AddressesOf(Tail(lines), name, family)
       IN IF Len(parts) >= 4 /\ parts[2] = name /\ parts[3] = family
            THEN <<AddressText(parts[4])>> \o rest
          ELSE rest

\* C3: Linux lines that name the same interface are merged into one record:
\* no two records share a name, and a record's IPv4 (IPv6) list holds the
\* address text before "/" of each inet (inet6) line of its interface.
C3_LinuxMergesFamilies ==
  IsLinuxNetworkCall =>
    LET lines == LinesRead
    IN /\ \A j, k \in 1..Len(ret) : ret[j].name = ret[k].name => j = k
       /\ \A k \in 1..Len(ret) :
            /\ Field(ret[k], "ipv4") = AddressesOf(lines, ret[k].name, "inet")
            /\ Field(ret[k], "ipv6") = AddressesOf(lines, ret[k].name, "inet6")

C3_Witness ==
  /\ IsLinuxNetworkCall
  /\ Len(LinesRead) = 2
  /\ Len(ret) = 1
  /\ Len(Field(ret[1], "ipv4")) = 1
  /\ Len(Field(ret[1], "ipv6")) = 1

RECURSIVE LinkMacsOf(_, _)
\* the MACs, in line order, of the family "link" lines of interface `name`
\* that carry one
LinkMacsOf(lines, name) ==
  IF lines = <<>> THEN <<>>
  ELSE LET parts == split(Head(lines))
           rest == LinkMacsOf(Tail(lines), name)
       IN IF /\ Len(parts) >= 4 /\ parts[2] = name /\ parts[3] = "link"
             /\ LinkMacSearch(Head(lines)) # None
            THEN <<LinkMacSearch(Head(lines))[1]>> \o rest
          ELSE rest

\* C4 as claimed: of several family "link" lines of one interface that carry
\* a MAC, the first one's MAC is the one recorded.
C4_FirstMacWins ==
  IsLinuxNetworkCall =>
    \A k \in 1..Len(ret) :
      LET macs == LinkMacsOf(LinesRead, ret[k].name)
      IN macs # <<>> => Field(ret[k], "mac") = macs[1]

\* C4 amended: of several family "link" lines of one interface that carry a
\* MAC, the last one's MAC is the one recorded; with no such line the record
\* has no MAC.
C4_LastMacWins ==
  IsLinuxNetworkCall =>
    \A k \in 1..Len(ret) :
      LET macs == LinkMacsOf(LinesRead, ret[k].name)
      IN IF macs = <<>> THEN "mac" \notin DOMAIN ret[k]
         ELSE Field(ret[k], "mac") = macs[Len(macs)]

C4_Witness ==
  /\ IsLinuxNetworkCall
  /\ \E k \in 1..Len(ret) :
       LET macs == LinkMacsOf(LinesRead, ret[k].name)
       IN /\ Len(macs) >= 2
          /\ macs[1] # macs[Len(macs)]
          /\ Field(ret[k], "mac") = macs[Len(macs)]

\* the lines that start an interface block of ifconfig
HeaderLines(lines) == {i \in 1..Len(lines) : Char(lines[i], 1) # "\t"}

\* the last line of the block that header line h starts
BlockEnd(lines, h) ==
  LET later == {i \in HeaderLines(lines) : i > h}
  IN IF later = {} THEN Len(lines) ELSE MinOf(later) - 1

\* the lines of the block of h on which "ether <mac>" matches
EtherLines(lines, h) == {j \in h..BlockEnd(lines, h) : EtherSearch(lines[j]) # None}

RECURSIVE Ascending(_)
\* a finite set of integers as the ascending sequence of its elements
Ascending(S) == IF S = {} THEN <<>> ELSE <<MinOf(S)>> \o Ascending(S \ {MinOf(S)})

RECURSIVE RecordedMacs(_)
\* the MACs of the records that have one, in order
RecordedMacs(interfaces) ==
  IF interfaces = <<>> THEN <<>>
  ELSE IF "mac" \in DOMAIN Head(interfaces)
    THEN <<Head(interfaces).mac>> \o RecordedMacs(Tail(interfaces))
  ELSE RecordedMacs(Tail(interfaces))

\* C5: in the BSD/macOS parser the MAC recorded for an interface block is the
\* match of the last line of the block (header or indented) on which
\* "ether <mac>" matches: block by block, the recorded MACs are those matches.
C5_BsdLastEtherWins ==
  IsBsdNetworkCall =>
    LET lines == LinesRead
        blocks == Ascending({h \in HeaderLines(lines) : EtherLines(lines, h) # {}})
    IN /\ Len(RecordedMacs(ret)) = Len(blocks)
       /\ \A k \in 1..Len(blocks) :
            RecordedMacs(ret)[k] =
              EtherSearch(lines[MaxOf(EtherLines(lines, blocks[k]))])[1]

C5_Witness ==
  /\ IsBsdNetworkCall
  /\ Len(ret) = 1
  /\ LET on == EtherLines(LinesRead, 1)
     IN /\ Cardinality(on) >= 2
        /\ EtherSearch(LinesRead[MinOf(on)]) # EtherSearch(LinesRead[MaxOf(on)])
        /\ Some(Field(ret[1], "mac")) = EtherSearch(LinesRead[MaxOf(on)])

\* C6: a Linux interface appears in the result only if one of its lines has a
\* recognized family ("link", "inet" or "inet6").
C6_OnlyRecognizedFamilies ==
  IsLinuxNetworkCall =>
    \A k \in 1..Len(ret) :
      \E i \in 1..Len(LinesRead) :
        LET parts == split(LinesRead[i])
        IN /\ Len(parts) >= 4
           /\ parts[2] = ret[k].name
           /\ parts[3] \in {"link", "inet", "inet6"}

\* C7: on every platform, when the adapter-listing command yields no output
\* (nothing, or only whitespace) the parser returns the empty list.
C7_EmptyOutputEmptyList ==
  (IsNetworkCall /\ run_command(env[ran[1]]) = "") => ret = <<>>

C7_Witness ==
  /\ IsBsdNetworkCall
  /\ env["ifconfig -a"] = "\n"
  /\ ret = <<>>

(***************************************************************************)
(* The security-tool classifier                                            *)
(***************************************************************************)
\* the elements of a sequence
Range(q) == {q[i] : i \in 1..Len(q)}

\* C8: the detected list is exactly the set of the table's values at the
\* running process names that are keys of the table, each once, in ascending
\* order; names that are no key add nothing.
C8_DetectedIsSortedImage ==
  fn = "detect_security_tools" =>
    LET running == get_running_process_names(system, env)
        hits == Range(running) \cap DOMAIN SECURITY_PROCESSES
    IN /\ Range(ret) = {SECURITY_PROCESSES[p] : p \in hits}
       /\ \A j, k \in 1..Len(ret) : j < k => StrLess(ret[j], ret[k])

C8_Witness ==
  /\ fn = "detect_security_tools"
  /\ get_running_process_names(system, env) = <<"msmpeng", "explorer">>
  /\ ret = <<CodePoints("Microsoft Defender")>>

(***************************************************************************)
(* The POSIX domain cascade                                                *)
(***************************************************************************)
\* what command i of the cascade yields
DomainOutput(i) == run_command(env[DomainCommands[i]])

\* the commands whose output is non-empty and, in lower case, no sentinel
UsableCommands ==
  {i \in 1..3 : DomainOutput(i) # "" /\ lower(DomainOutput(i)) \notin {"(none)", "unknown"}}

\* C9: on POSIX the three commands are tried in order; the result is the
\* output of the first one that is non-empty and not "(none)" or "unknown" in
\* any letter case, no later command is run, and with no such command the
\* result is None.
C9_DomainCascade ==
  (fn = "get_domain_name" /\ system # "windows") =>
    IF UsableCommands = {}
      THEN ret = None /\ ran = DomainCommands
    ELSE /\ ret = Some(DomainOutput(MinOf(UsableCommands)))
         /\ ran = SubSeq(DomainCommands, 1, MinOf(UsableCommands))

C9_Witness ==
  /\ fn = "get_domain_name"
  /\ system # "windows"
  /\ env["hostname -d"] = "(NONE)\n"
  /\ env["dnsdomainname"] = "corp.example.com\n"
  /\ ret = Some("corp.example.com")
  /\ ran = <<"hostname -d", "dnsdomainname">>

(***************************************************************************)
(* The POSIX disk parser                                                   *)
(***************************************************************************)
HasSixFields(line) == Len(split(line)) >= 6

\* the rows of df after its first line
DfRowsRead == IF LinesRead = <<>> THEN <<>> ELSE Tail(LinesRead)

\* C10: after the first line, a row of fewer than 6 fields gives no record
\* and a row of 6 or more gives exactly one, in input order, with name =
\* field 6, filesystem = field 1 and total, used, free = fields 2, 3, 4.
C10_DfRowsOfSixFields ==
  (fn = "get_disk_info" /\ system # "windows") =>
    LET kept == SelectSeq(DfRowsRead, HasSixFields)
    IN /\ Len(ret) = Len(kept)
       /\ \A k \in 1..Len(kept) :
            LET parts == split(kept[k])
            IN ret[k] = [name |-> parts[6],
                         filesystem |-> parts[1],
                         total |-> ParseInt(parts[2]),
                         used |-> ParseInt(parts[3]),
                         free |-> ParseInt(parts[4])]

C10_Witness ==
  /\ fn = "get_disk_info"
  /\ system # "windows"
  /\ Len(DfRowsRead) = 3
  /\ Len(split(DfRowsRead[1])) = 6
  /\ Len(split(DfRowsRead[2])) = 5
  /\ Len(split(DfRowsRead[3])) = 7
  /\ Len(ret) = 2
  /\ ret[1].name = "/"
  /\ ret[2].name = "/run"

(***************************************************************************)
(* The hardware collectors                                                 *)
(***************************************************************************)
\* the fields of the first line of the output of free -b that begins with
\* "Mem:", <<>> when no line does
MemLineParts ==
  LET lines == splitlines(run_command(env["free -b"]))
      hits == {i \in 1..Len(lines) : startswith(lines[i], "Mem:")}
  IN IF hits = {} THEN <<>> ELSE split(lines[MinOf(hits)])

IsLinuxPrimaryMemoryCall ==
  /\ fn = "get_memory_info"
  /\ system = "linux"
  /\ "free -b" \in DOMAIN env
  /\ run_command(env["free -b"]) # ""

\* C11: a numeric field whose text is not an integer is reported as unknown
\* and the collector still returns its record with the other fields: every
\* call of the memory collector returns a record, and on the Linux primary
\* path a "Mem:" line of at least 4 fields gives total and free each as the
\* integer its own field holds, or unknown when that field is not an integer.
C11_UnparsedFieldIsUnknown ==
  /\ fn = "get_memory_info" => ~IsRaised(ret)
  /\ (IsLinuxPrimaryMemoryCall /\ Len(MemLineParts) >= 4 /\ ~IsRaised(ret)) =>
       /\ ret.value.total = ParseInt(MemLineParts[2])
       /\ ret.value.free = ParseInt(MemLineParts[4])

(***************************************************************************)
(* The report assembler                                                    *)
(***************************************************************************)
ReportKeys == {"collected_at", "basic_config", "network", "hardware", "security_tools"}

\* C12: whatever the external sources say, gather_host_info returns a report
\* with the five top-level keys and detection_method "process_scan"; no
\* exception of a collector leaves the assembler.
C12_AssemblerAlwaysReturns ==
  fn = "gather_host_info" =>
    /\ ~IsRaised(ret)
    /\ DOMAIN ret.value = ReportKeys
    /\ ret.value.security_tools.detection_method = "process_scan"

\* the outcome of a run without the time it was collected at
WithoutTime(outcome) ==
  IF IsRaised(outcome) THEN outcome
  ELSE Return([outcome.value EXCEPT !.collected_at = ""])

\* C13: two runs of gather_host_info against the same platform, command
\* outputs, files and environment, in processes with any hash seeds and at
\* any times, give reports equal in every field and every order, except
\* collected_at.
C13_SameSourcesSameReport ==
  (fn = "gather_host_info" /\ prev # None) => WithoutTime(prev[1]) = WithoutTime(ret)

\* a second run under the seed that iterates the detected set descending,
\* at a later second, of a host with several tools, interfaces and users
C13_Witness ==
  /\ fn = "gather_host_info"
  /\ prev # None
  /\ ~IsRaised(ret)
  /\ seed = 1
  /\ prev[1].value.collected_at # ret.value.collected_at
  /\ Len(ret.value.security_tools.detected) >= 3
  /\ Len(ret.value.network) >= 2
  /\ Len(ret.value.basic_config.users) >= 2

(***************************************************************************)
(* The Windows volume parser                                               *)
(***************************************************************************)
IsWindowsDiskCall == fn = "get_disk_info" /\ system = "windows"

\* the lines of the csv whose first field is not the literal "Node" and
\* that have at least 5 comma-separated fields
VolumeRows ==
  LET lines == splitlines(run_command(env[DiskCommand("windows")]))
  IN {i \in 1..Len(lines) :
        /\ Len(splitOn(lines[i], ",", -1)) >= 5
        /\ splitOn(lines[i], ",", -1)[1] # "Node"}

\* C14: the Windows disk parser skips, of the non-empty rows, only the one
\* whose first field is exactly "Node": every other row of at least 5
\* fields gives one volume record, whose used is total - free when both are
\* integers and unknown otherwise.
C14_OnlyNodeHeaderSkipped ==
  IsWindowsDiskCall =>
    /\ Len(ret) = Cardinality(VolumeRows)
    /\ \A k \in 1..Len(ret) :
         ret[k].used = IF ret[k].total # None /\ ret[k].free # None
                         THEN Some(ret[k].total[1] - ret[k].free[1])
                       ELSE None

(***************************************************************************)
(* The Windows local-user parser                                           *)
(***************************************************************************)
IsNetUserCall == fn = "get_local_users" /\ system = "windows" /\ "net user" \in DOMAIN env

NetUserLinesRead == splitlines(run_command(env["net user"]))

\* the first line whose trimmed content begins with three dashes, 0 if none
DividerLine ==
  LET hits == {i \in 1..Len(NetUserLinesRead) : startswith(strip(NetUserLinesRead[i]), "---")}
  IN IF hits = {} THEN 0 ELSE MinOf(hits)

\* the first blank line after the divider, one past the last line if none
ListEnd ==
  LET hits == {i \in DividerLine + 1..Len(NetUserLinesRead) : strip(NetUserLinesRead[i]) = ""}
  IN IF hits = {} THEN Len(NetUserLinesRead) + 1 ELSE MinOf(hits)

RECURSIVE TokensOf(_, _, _)
\* the whitespace-separated tokens of lines a..b, in order
TokensOf(lines, a, b) ==
  IF a > b THEN <<>> ELSE split(lines[a]) \o TokensOf(lines, a + 1, b)

\* C15: the Windows local-user parser returns nothing when no line is a
\* divider; otherwise it returns, in order, every whitespace-separated token
\* of the lines after the first divider and before the first blank line
\* that follows it: no token of a line before the divider, of the divider,
\* or of a line after that blank line.
C15_TokensBetweenDividerAndBlank ==
  IsNetUserCall =>
    ret = IF DividerLine = 0 THEN <<>>
          ELSE TokensOf(NetUserLinesRead, DividerLine + 1, ListEnd - 1)

\* tokens before the divider, tokens collected, then a blank line and
\* tokens after it
C15_Witness ==
  /\ IsNetUserCall
  /\ DividerLine > 1
  /\ split(NetUserLinesRead[1]) # <<>>
  /\ Len(ret) >= 2
  /\ ListEnd < Len(NetUserLinesRead)
  /\ split(NetUserLinesRead[Len(NetUserLinesRead)]) # <<>>

(***************************************************************************)
(* The Linux memory collector                                              *)
(***************************************************************************)
IsLinuxMemoryCall == fn = "get_memory_info" /\ system = "linux"

\* C16: the Linux memory collector opens /proc/meminfo exactly when free -b
\* gave no output; when it gave some, the file is left alone and total and
\* free are the 2nd and 4th field of the first line beginning with "Mem:",
\* both unknown when there is no such line or it has fewer than 4 fields
\* (the call that ends in the ValueError of a field that is not an integer
\* returns no figures at all, and does not open the file either).
C16_FallbackOnlyWithoutOutput ==
  IsLinuxMemoryCall =>
    /\ ("/proc/meminfo" \in Range(ran)) <=> (Output(env, "free -b") = "")
    /\ "free -b" \in Range(ran)
    /\ (Output(env, "free -b") # "" /\ Len(MemLineParts) < 4) =>
         ret = Return([total |-> None, free |-> None])
    /\ (Output(env, "free -b") # "" /\ Len(MemLineParts) >= 4) =>
         \/ ret = Return([total |-> ParseInt(MemLineParts[2]),
                          free |-> ParseInt(MemLineParts[4])])
         \/ /\ IsRaised(ret)
            /\ None \in {ParseInt(MemLineParts[2]), ParseInt(MemLineParts[4])}

\* free -b printed a header and then a "Mem:" line, /proc/meminfo exists
\* with other figures, and the result holds those of the "Mem:" line
C16_Witness ==
  /\ IsLinuxMemoryCall
  /\ "/proc/meminfo" \in DOMAIN env
  /\ Output(env, "free -b") # ""
  /\ ~startswith(Output(env, "free -b"), "Mem:")
  /\ ret = Return([total |-> Some(1000), free |-> Some(600)])
  /\ ran = <<"free -b">>

(***************************************************************************)
(* The Linux interface list                                                *)
(***************************************************************************)
\* the fields of each line
FieldsOf(lines) == [i \in 1..Len(lines) |-> split(lines[i])]

\* for each line, the interface it names: its second field if it has at
\* least 4 fields, "" if it names none
NamedBy(fields) ==
  [i \in DOMAIN fields |-> IF Len(fields[i]) >= 4 THEN fields[i][2] ELSE ""]

\* the lines that name `name`
LinesNaming(named, name) == {i \in DOMAIN named : named[i] = name}

RECURSIVE AddressesFrom(_, _, _, _, _)
\* the address text before "/" of the lines from i on that name `name` with
\* family tag `family`, in line order
AddressesFrom(fields, named, i, name, family) ==
  IF i > Len(fields) THEN <<>>
  ELSE IF named[i] = name /\ fields[i][3] = family
    THEN <<AddressText(fields[i][4])>> \o AddressesFrom(fields, named, i + 1, name, family)
  ELSE AddressesFrom(fields, named, i + 1, name, family)

\* C17: the Linux network parser returns exactly one record for each
\* distinct interface name (the second field of a line of at least 4
\* fields), the records ordered by the first line that names them, and in
\* each record the IPv4 and the IPv6 list in the order of the input lines.
C17_OneRecordPerNameInOrder ==
  IsLinuxNetworkCall =>
    LET fields == FieldsOf(LinesRead)
        named == NamedBy(fields)
        names == {named[i] : i \in DOMAIN named} \ {""}
        first == [k \in 1..Len(ret) |->
                    MinOf(LinesNaming(named, ret[k].name) \cup {Len(fields) + 1})]
    IN /\ {ret[k].name : k \in 1..Len(ret)} = names
       /\ Len(ret) = Cardinality(names)
       /\ \A k \in 1..Len(ret) - 1 : first[k] < first[k + 1]
       /\ \A k \in 1..Len(ret) :
            /\ Field(ret[k], "ipv4") = AddressesFrom(fields, named, 1, ret[k].name, "inet")
            /\ Field(ret[k], "ipv6") = AddressesFrom(fields, named, 1, ret[k].name, "inet6")

\* a second interface is first named between two lines of the first one,
\* whose two different IPv4 addresses come out in line order
C17_Witness ==
  /\ IsLinuxNetworkCall
  /\ Len(ret) = 2
  /\ MaxOf(LinesNaming(NamedBy(FieldsOf(LinesRead)), ret[1].name))
       > MinOf(LinesNaming(NamedBy(FieldsOf(LinesRead)), ret[2].name))
  /\ Len(Field(ret[1], "ipv4")) = 2
  /\ Field(ret[1], "ipv4")[1] # Field(ret[1], "ipv4")[2]

====
